---- MODULE Spec2Model ----
(***************************************************************************)
(* Model of the agentic tool-execution loop of gpt-oss-harmony-groq:       *)
(*   - ToolExecutor (tools/tool-executor.ts): admission control, argument  *)
(*     parsing, validation, the race of a tool against its timeout, and    *)
(*     the in-flight counter;                                              *)
(*   - ToolRegistry (tools/tool-registry.ts): validateToolCall/executeTool;*)
(*   - EnhancedChatHandler (enhanced-chat-handler.ts): the orchestration   *)
(*     loop over model turns, and the streaming pass-through;              *)
(*   - ChatHandler / GroqClient: one remote call per model turn.           *)
(*                                                                         *)
(* JavaScript runs one synchronous segment at a time: every action below   *)
(* is one such segment, from a resumption (or a call) to the next await.   *)
(***************************************************************************)
EXTENDS Integers, Sequences, FiniteSets, TLC

(***************************************************************************)
(* Bounds of the model.                                                    *)
(***************************************************************************)
\* largest number of tool calls in one assistant message
MaxCalls == 2
\* largest maxConcurrentExecutions the ToolExecutor is constructed with
MaxCeiling == 2
\* largest maxToolIterations the handler is constructed with
MaxCap == 2
\* largest number of tool calls the remote model emits over one conversation
MaxTotalCalls == 3

\* the chat-completion runs (callers of executeToolCalls) sharing one executor
Runs == {"r1", "r2"}
\* the run that is followed through the orchestration loop
LoopRuns == {"r1"}

VARIABLES
    \* ToolExecutor
    maxConcurrentExecutions,  \* constructor argument
    currentExecutions,        \* the in-flight counter
    batch,                    \* per run: the invocations of its executeToolCalls call
    finished,                 \* per loop run: indices of the invocations of its
                              \* latest batch, in order of return
    \* EnhancedChatHandler configuration
    enableAutoToolExecution,
    maxToolIterations,
    \* one chat-completion run
    pc,
    received,                 \* the caller's request
    request,                  \* the request after enhanceRequestWithTools
    currentMessages,
    iterations,
    capAtStart,               \* maxToolIterations when the run was started
    turnLog,                  \* tool_choice of every remote call issued, in order
    lastRequest,              \* messages and tool_choice of the latest remote call
    execLog,                  \* ids handed to executeToolCall, in order
    batches,                  \* number of executeToolCalls calls made
    returned,                 \* what the run returned to its caller
    \* GroqClient and the Harmony functions
    harmonyRequest,           \* the request createChatCompletion encodes
    harmonyPrompt,            \* what convertToHarmonyFormat returned for it
    harmonyContent,           \* the text handed to parseHarmonyResponse
    parsedResponse,           \* what parseHarmonyResponse returned for it
    \* GroqClient.processGptOssStream
    upstreamLines,            \* the lines the remote service sends, in order
    sourceStream,             \* the part of them that has not been read yet
    enqueued,                 \* the lines handed to controller.enqueue, in order
    accumulatedContent,
    controllerState,
    \* ToolRegistry, and the tool options of EnhancedChatHandler
    tools,                    \* the Map of the registry, in insertion order
    includeBuiltInTools,
    customTools,
    registrations,            \* the arguments of the registerTool calls, in order
    lastCall                  \* the latest call of a method and its outcome

execVars == <<maxConcurrentExecutions, currentExecutions, batch, finished>>
confVars == <<enableAutoToolExecution, maxToolIterations>>
runVars  == <<pc, received, request, currentMessages, iterations, capAtStart, turnLog, lastRequest,
              execLog, batches, returned>>
codecVars == <<harmonyRequest, harmonyPrompt, harmonyContent, parsedResponse>>
streamVars == <<upstreamLines, sourceStream, enqueued, accumulatedContent, controllerState>>
toolVars == <<tools, includeBuiltInTools, customTools, registrations, lastCall>>
vars     == <<execVars, confVars, runVars, codecVars, streamVars, toolVars>>

(***************************************************************************)
(* Tool calls and the registry.                                            *)
(***************************************************************************)
\* the registry holds the tool "calc", whose schema requires the parameter "x"
RegisteredTools == {"calc"}

\* the (name, arguments) pairs a model may emit, one per path of
\* executeToolCall: arguments with the required parameter, a JSON object
\* without it, text JSON.parse rejects, and a name that is not registered
CallShapes ==
    { <<"calc", "{\"x\":1}">>, <<"calc", "{}">>, <<"calc", "{x: 1}">>,
      <<"nosuch", "{\"x\":1}">> }

\* argument objects in the wrapping of some client integrations: an "args" array
\* whose first element is the argument object, an empty object beside a
\* top-level "x", or an object of the file.path shape
WrappedShapes ==
    { <<"calc", "{\"args\":[{\"x\":1}]}">>,
      <<"calc", "{\"x\":1,\"args\":[{}]}">>,
      <<"calc", "{\"args\":[{\"file\":{\"path\":\"p\"}}]}">>,
      <<"nosuch", "{\"args\":[null]}">>,
      <<"nosuch", "null">> }

MkCall(id, shape) == [id |-> id, name |-> shape[1], arguments |-> shape[2]]

\* JSON.parse(func.arguments) succeeds
ParseOK(arguments) == arguments # "{x: 1}"

\* the argument object after JSON.parse and the unwrapping that follows it: a
\* non-empty "args" array replaces the object by its first element, or by
\* {path} when that element has file.path
UnwrapArgs(arguments) ==
    IF arguments = "{\"args\":[{\"x\":1}]}" THEN "{\"x\":1}"
    ELSE IF arguments = "{\"x\":1,\"args\":[{}]}" THEN "{}"
    ELSE IF arguments = "{\"args\":[{\"file\":{\"path\":\"p\"}}]}" THEN "{\"path\":\"p\"}"
    ELSE arguments

\* the unwrapping reads a property of null (args.args of the JSON value null,
\* firstArg.file of a null first element): a TypeError inside the inner try
UnwrapThrows(arguments) == arguments \in {"null", "{\"args\":[null]}"}

\* requiredParam in args, for the one required parameter of "calc"
HasRequired(arguments) == arguments = "{\"x\":1}"

\* error texts, as sequences of text pieces; equal sequences are equal texts
ErrRejected    == <<"Maximum concurrent tool executions reached">>
ErrInvalidJSON == <<"Invalid JSON arguments: ", "parse error">>
ErrInvalidType == <<"Invalid JSON arguments: ", "type error">>
ErrTimeout     == <<"Tool execution timeout">>
ErrNotFound(name) == <<"Tool '", name, "' not found">>
ErrMissing     == <<"Missing required parameter: ", "x">>

\* messages a tool implementation may throw
ToolThrowTexts == { <<"Maximum concurrent tool executions reached">> }

\* a validation that finds every required parameter
validateToolCallNoRequired(name, arguments) ==
    IF name \notin RegisteredTools
    THEN [valid |-> FALSE, error |-> ErrNotFound(name)]
    ELSE [valid |-> TRUE, error |-> <<>>]

\* a tool message that carries the bare reason
ToolMessageBare(result) ==
    [role |-> "tool",
     content |-> IF result.success THEN <<"json:", result.result>> ELSE result.error,
     name |-> result.function_name, tool_calls |-> <<>>,
     tool_call_id |-> result.tool_call_id]

\* a validation that does not look the tool up
validateToolCallNoLookup(name, arguments) ==
    IF ~HasRequired(arguments)
    THEN [valid |-> FALSE, error |-> ErrMissing]
    ELSE [valid |-> TRUE, error |-> <<>>]

\* ToolRegistry.validateToolCall
validateToolCall(name, arguments) ==
    IF name \notin RegisteredTools
    THEN [valid |-> FALSE, error |-> ErrNotFound(name)]
    ELSE IF ~HasRequired(arguments)
         THEN [valid |-> FALSE, error |-> ErrMissing]
         ELSE [valid |-> TRUE, error |-> <<>>]

\* the thrown text passed on as it is
ExecuteToolErrorRaw(thrown) == thrown

\* ToolRegistry.executeTool: what the rejection of a throwing tool carries
ExecuteToolError(thrown) == <<"Tool execution failed: ">> \o thrown

(***************************************************************************)
(* ToolExecutor.executeToolCall                                            *)
(***************************************************************************)
\* an absent tool_call_id
NoId == <<>>

NoResult == [tool_call_id |-> NoId, function_name |-> "", success |-> FALSE,
             result |-> "", error |-> <<>>]

\* a failure that does not carry the id of its call
FailureWithoutId(call, err) ==
    [tool_call_id |-> NoId, function_name |-> call.name, success |-> FALSE,
     result |-> "", error |-> err]

Failure(call, err) ==
    [tool_call_id |-> call.id, function_name |-> call.name, success |-> FALSE,
     result |-> "", error |-> err]

Success(call, value) ==
    [tool_call_id |-> call.id, function_name |-> call.name, success |-> TRUE,
     result |-> value, error |-> <<>>]

\* the admission check, one off
AdmittedOneMore(n, ceiling) == ~(n > ceiling)

\* the admission check: currentExecutions >= maxConcurrentExecutions rejects
Admitted(n, ceiling) == ~(n >= ceiling)

\* no decrement
FinallyMissing(n) == n

\* the finally block
Finally(n) == n - 1

\* an invocation that has returned its result
Returned(call, res, ran) ==
    [call |-> call, st |-> "returned", tool |-> IF ran THEN "settled" ELSE "none",
     result |-> res]

\* The synchronous part of one executeToolCall, entered with the counter at n:
\* the invocation it leaves behind and the counter after it.
ExecuteToolCallSync(call, n, ceiling) ==
    IF ~Admitted(n, ceiling)
    THEN [inv |-> Returned(call, Failure(call, ErrRejected), FALSE), count |-> n]
    ELSE LET n1 == n + 1 IN
         IF ~ParseOK(call.arguments)
         THEN [inv |-> Returned(call, Failure(call, ErrInvalidJSON), FALSE),
               count |-> Finally(n1)]
         ELSE IF UnwrapThrows(call.arguments)
         THEN [inv |-> Returned(call, Failure(call, ErrInvalidType), FALSE),
               count |-> Finally(n1)]
         ELSE LET validation == validateToolCall(call.name, UnwrapArgs(call.arguments)) IN
              IF ~validation.valid
              THEN [inv |-> Returned(call, Failure(call, validation.error), FALSE),
                    count |-> Finally(n1)]
              ELSE [inv |-> [call |-> call, st |-> "running", tool |-> "pending",
                             result |-> NoResult],
                    count |-> n1]

\* toolCalls.map(toolCall => this.executeToolCall(toolCall)): the synchronous
\* parts run one after the other, each seeing the counter the previous left
RECURSIVE MapExecute(_, _, _)
MapExecute(calls, n, ceiling) ==
    IF calls = <<>>
    THEN [invs |-> <<>>, count |-> n]
    ELSE LET first == ExecuteToolCallSync(Head(calls), n, ceiling)
             rest  == MapExecute(Tail(calls), first.count, ceiling)
         IN [invs |-> <<first.inv>> \o rest.invs, count |-> rest.count]

\* the results in the order the invocations returned
ResultsAsReturned(invs, order) == [k \in 1..Len(order) |-> invs[order[k]].result]

\* Promise.all: the results in the order of the calls
AllResults(invs, order) == [i \in 1..Len(invs) |-> invs[i].result]

\* the invocations that returned without awaiting, in call order
ReturnedAtOnce(invs) ==
    SelectSeq([i \in 1..Len(invs) |-> i], LAMBDA i : invs[i].st = "returned")

\* the order of return is followed for the runs of the orchestration loop
NoteReturn(r, i) == IF pc[r] = "tools" THEN Append(finished[r], i) ELSE finished[r]

\* Promise.race in place of Promise.all: the first result ends the wait
AnyReturned(invs) == \E i \in 1..Len(invs) : invs[i].st = "returned"

\* Promise.all resolves: every invocation has returned
AllReturned(invs) == \A i \in 1..Len(invs) : invs[i].st = "returned"

\* The registered tool settles before the timer: the awaited race ends, the
\* result (or the caught error) is returned, the finally block runs.
ToolSettles(r, i) ==
    /\ i \in 1..Len(batch[r])
    /\ batch[r][i].st = "running"
    /\ \E res \in {Success(batch[r][i].call, "value")}
                  \cup {Failure(batch[r][i].call, ExecuteToolError(t)) : t \in ToolThrowTexts} :
         batch' = [batch EXCEPT ![r][i] = Returned(batch[r][i].call, res, TRUE)]
    /\ currentExecutions' = Finally(currentExecutions)
    /\ finished' = [finished EXCEPT ![r] = NoteReturn(r, i)]
    /\ UNCHANGED <<maxConcurrentExecutions, confVars, streamVars, toolVars, codecVars, runVars>>

\* a timer whose firing ends nothing: the invocation goes on waiting
TimerRejectsNothing(r, i) ==
    /\ i \in 1..Len(batch[r])
    /\ batch[r][i].st = "running"
    /\ UNCHANGED vars

\* The timer fires first: the race rejects, the catch block builds the failure,
\* the finally block runs; the tool itself keeps running.
ToolTimesOut(r, i) ==
    /\ i \in 1..Len(batch[r])
    /\ batch[r][i].st = "running"
    /\ batch' = [batch EXCEPT ![r][i] =
                    [call |-> batch[r][i].call, st |-> "returned", tool |-> "pending",
                     result |-> Failure(batch[r][i].call, ErrTimeout)]]
    /\ currentExecutions' = Finally(currentExecutions)
    /\ finished' = [finished EXCEPT ![r] = NoteReturn(r, i)]
    /\ UNCHANGED <<maxConcurrentExecutions, confVars, streamVars, toolVars, codecVars, runVars>>

\* A tool whose invocation already returned by timeout settles: nobody awaits it.
ToolSettlesLate(r, i) ==
    /\ i \in 1..Len(batch[r])
    /\ batch[r][i].st = "returned"
    /\ batch[r][i].tool = "pending"
    /\ batch' = [batch EXCEPT ![r][i].tool = "settled"]
    /\ UNCHANGED <<maxConcurrentExecutions, currentExecutions, finished, confVars, streamVars, toolVars, codecVars, runVars>>

(***************************************************************************)
(* Messages, requests and responses.                                       *)
(***************************************************************************)
NoCalls == <<>>

Last(seq) == seq[Len(seq)]

Message(role, content, name, calls, id) ==
    [role |-> role, content |-> content, name |-> name, tool_calls |-> calls,
     tool_call_id |-> id]

UserMessage == Message("user", <<"hi">>, "", NoCalls, NoId)
BadRoleMessage == Message("function", <<"hi">>, "", NoCalls, NoId)

\* what the remote model answers with: text, and tool calls decoded from it
AssistantMessage(calls) == Message("assistant", <<"text">>, "", calls, NoId)

\* the message built from one ToolExecutionResult
ToolMessage(result) ==
    Message("tool",
            IF result.success THEN <<"json:", result.result>>
                              ELSE <<"Error: ">> \o result.error,
            result.function_name, NoCalls, result.tool_call_id)

\* the message appended for the forced last turn
CapMessage ==
    Message("system",
            <<"Maximum tool execution iterations reached. Please provide a final response without using more tools.">>,
            "", NoCalls, NoId)

ToolChoices == {"none", "auto", "absent"}
Models == {"openai/gpt-oss-20b", ""}
MessageLists == { <<>>, <<UserMessage>>, <<BadRoleMessage>> }

Requests ==
    [model : Models, messages : MessageLists, tool_choice : ToolChoices, stream : BOOLEAN]

ValidRoles == {"system", "user", "assistant", "tool"}

\* ChatHandler.validateRequest: "" stands for null
validateRequest(req) ==
    IF req.model = "" THEN "Model is required"
    ELSE IF Len(req.messages) = 0 THEN "Messages array is required and must not be empty"
    ELSE IF \E i \in 1..Len(req.messages) : req.messages[i].role \notin ValidRoles
         THEN "Each message must have a valid role"
         ELSE ""

\* EnhancedChatHandler.enhanceRequestWithTools, with no custom tools: the
\* built-in catalogue is never empty
enhanceRequestWithTools(req, builtIn) ==
    IF req.tool_choice = "none" \/ ~builtIn
    THEN req
    ELSE [req EXCEPT !.tool_choice = IF @ # "absent" THEN @ ELSE "auto"]

\* the branch taken on the auto-execution setting alone
RunsLoopIgnoringChoice(autoExecution, enhanced) == autoExecution

\* the branch of handleChatCompletion that runs the loop
RunsLoop(autoExecution, enhanced) ==
    ~(~autoExecution \/ enhanced.tool_choice = "none")

\* the loop condition, one off
LoopContinuesOneMore(iter, cap) == iter <= cap

\* the loop condition
LoopContinues(iter, cap) == iter < cap

\* the last request with the caller's tool_choice left in place
FinalRequestKeepsChoice(req, msgs) == [req EXCEPT !.messages = msgs \o <<CapMessage>>]

\* the request of the forced last turn
FinalRequest(req, msgs) ==
    [req EXCEPT !.messages = msgs \o <<CapMessage>>, !.tool_choice = "none"]

Response(n, msg) == [kind |-> "response", choices |-> n, message |-> msg]
ErrorReturn(text) == [kind |-> "error", choices |-> 0, message |-> <<text>>]
StreamReturn == [kind |-> "stream", choices |-> 0, message |-> <<>>]
NoReturn == [kind |-> "none", choices |-> 0, message |-> <<>>]
NoRequest == [model |-> "", messages |-> <<>>, tool_choice |-> "absent", stream |-> FALSE]

\* answers of the remote endpoint to one call: the number of choices and the
\* first choice's message
CallSeqs(n) == UNION { [1..k -> CallShapes] : k \in 1..n }

IdCalls(tag, shapes) == [i \in 1..Len(shapes) |-> MkCall(<<tag, i>>, shapes[i])]

Min(a, b) == IF a < b THEN a ELSE b

RemoteAnswers(tag, budget) ==
    {Response(0, <<>>)}
    \cup {Response(n, AssistantMessage(NoCalls)) : n \in 1..2}
    \cup {Response(1, AssistantMessage(IdCalls(tag, shapes))) :
             shapes \in CallSeqs(Min(MaxCalls, budget))}

\* the tool calls the remote model may still emit in the conversation of run r
Budget(r) == MaxTotalCalls - Len(execLog[r])

(***************************************************************************)
(* ChatHandler.handleChatCompletion up to its await: validation, then the  *)
(* remote call.                                                            *)
(***************************************************************************)
\* where a run is after super.handleChatCompletion(req) was entered
Issue(r, req, waiting) ==
    IF validateRequest(req) # ""
    THEN /\ pc' = [pc EXCEPT ![r] = "failed"]
         /\ returned' = [returned EXCEPT ![r] = ErrorReturn(validateRequest(req))]
         /\ UNCHANGED <<turnLog, lastRequest>>
    ELSE /\ pc' = [pc EXCEPT ![r] = waiting]
         /\ turnLog' = [turnLog EXCEPT ![r] = Append(@, req.tool_choice)]
         /\ lastRequest' = [lastRequest EXCEPT ![r] = req]
         /\ UNCHANGED returned

\* The loop of handleChatCompletionWithTools from its condition to the next
\* await: one more turn, or the forced last turn.
LoopStep(r, req, msgs, iter) ==
    IF LoopContinues(iter, maxToolIterations)
    THEN /\ iterations' = [iterations EXCEPT ![r] = iter + 1]
         /\ Issue(r, [req EXCEPT !.messages = msgs], "turn")
    ELSE /\ iterations' = [iterations EXCEPT ![r] = iter]
         /\ Issue(r, FinalRequest(req, msgs), "final")

(***************************************************************************)
(* EnhancedChatHandler                                                     *)
(***************************************************************************)
handleChatCompletion(r) ==
    /\ pc[r] = "idle"
    /\ \E req \in Requests, builtIn \in BOOLEAN :
         LET enhanced == enhanceRequestWithTools(req, builtIn) IN
         /\ ~req.stream
         /\ received' = [received EXCEPT ![r] = req]
         /\ capAtStart' = [capAtStart EXCEPT ![r] = maxToolIterations]
         /\ request' = [request EXCEPT ![r] = enhanced]
         /\ IF RunsLoop(enableAutoToolExecution, enhanced)
            THEN /\ currentMessages' = [currentMessages EXCEPT ![r] = enhanced.messages]
                 /\ LoopStep(r, enhanced, enhanced.messages, 0)
            ELSE /\ Issue(r, enhanced, "single")
                 /\ UNCHANGED <<currentMessages, iterations>>
    /\ UNCHANGED <<execVars, confVars, streamVars, toolVars, codecVars, execLog, batches>>

\* a streamed request that would enter the loop
StreamingBranchLoops(r, enhanced) ==
    IF RunsLoop(enableAutoToolExecution, enhanced)
    THEN /\ currentMessages' = [currentMessages EXCEPT ![r] = enhanced.messages]
         /\ LoopStep(r, enhanced, enhanced.messages, 0)
    ELSE /\ Issue(r, enhanced, "stream")
         /\ UNCHANGED <<currentMessages, iterations>>

\* both branches of handleStreamingChatCompletion: the base class's streaming
StreamingBranch(r, enhanced) ==
    /\ Issue(r, enhanced, "stream")
    /\ UNCHANGED <<currentMessages, iterations>>

handleStreamingChatCompletion(r) ==
    /\ pc[r] = "idle"
    /\ \E req \in Requests, builtIn \in BOOLEAN :
         LET enhanced == enhanceRequestWithTools(req, builtIn) IN
         /\ req.stream
         /\ received' = [received EXCEPT ![r] = req]
         /\ capAtStart' = [capAtStart EXCEPT ![r] = maxToolIterations]
         /\ request' = [request EXCEPT ![r] = enhanced]
         /\ StreamingBranch(r, enhanced)
    /\ UNCHANGED <<execVars, confVars, streamVars, toolVars, codecVars, execLog, batches>>

\* a failed remote call that is issued again
RemoteFailsRetried(r) ==
    /\ pc[r] \in {"turn", "final", "single", "stream"}
    /\ turnLog' = [turnLog EXCEPT ![r] = Append(@, lastRequest[r].tool_choice)]
    /\ UNCHANGED <<execVars, confVars, streamVars, toolVars, codecVars, pc, received, request, capAtStart, currentMessages, iterations,
                   lastRequest, execLog, batches, returned>>

\* the remote call fails: GroqClient throws, nothing catches it
RemoteFails(r) ==
    /\ pc[r] \in {"turn", "final", "single", "stream"}
    /\ pc' = [pc EXCEPT ![r] = "failed"]
    /\ returned' = [returned EXCEPT ![r] = ErrorReturn("Groq API request failed")]
    /\ UNCHANGED <<execVars, confVars, streamVars, toolVars, codecVars, received, request, capAtStart, currentMessages, iterations,
                   turnLog, lastRequest, execLog, batches>>

\* the response handed back as it came
LoopReturnUnchanged(response, assistantMessage) == response

\* what the loop returns when the assistant message has no tool calls
LoopReturn(response, assistantMessage) == Response(1, assistantMessage)

\* let currentMessages = request.messages: the loop pushes onto the caller's array
LoopArrayShared(callerMessages, loopMessages) == loopMessages

\* let currentMessages = [...request.messages]: the loop pushes onto a copy,
\* the caller's array is what it was
LoopArray(callerMessages, loopMessages) == callerMessages

\* a turn of the loop is answered
TurnAnswered(r) ==
    /\ pc[r] = "turn"
    /\ \E response \in RemoteAnswers(iterations[r], Budget(r)) :
         IF response.choices = 0
         THEN /\ pc' = [pc EXCEPT ![r] = "done"]
              /\ returned' = [returned EXCEPT ![r] = response]
              /\ UNCHANGED <<execVars, currentMessages, execLog, batches>>
         ELSE LET assistantMessage == response.message IN
              /\ currentMessages' = [currentMessages EXCEPT ![r] = Append(@, assistantMessage)]
              /\ IF Len(assistantMessage.tool_calls) > 0
                 THEN LET started == MapExecute(assistantMessage.tool_calls,
                                                currentExecutions, maxConcurrentExecutions)
                      IN /\ batch' = [batch EXCEPT ![r] = started.invs]
                         /\ currentExecutions' = started.count
                         /\ finished' = [finished EXCEPT ![r] = ReturnedAtOnce(started.invs)]
                         /\ execLog' = [execLog EXCEPT ![r] =
                                @ \o [i \in 1..Len(started.invs) |-> started.invs[i].call.id]]
                         /\ batches' = [batches EXCEPT ![r] = @ + 1]
                         /\ pc' = [pc EXCEPT ![r] = "tools"]
                         /\ UNCHANGED <<maxConcurrentExecutions, returned>>
                 ELSE /\ pc' = [pc EXCEPT ![r] = "done"]
                      /\ returned' = [returned EXCEPT ![r] =
                                         LoopReturn(response, assistantMessage)]
                      /\ UNCHANGED <<execVars, execLog, batches>>
    /\ received' = [received EXCEPT ![r].messages = LoopArray(@, currentMessages'[r])]
    /\ UNCHANGED <<confVars, streamVars, toolVars, codecVars, request, capAtStart, iterations, turnLog, lastRequest>>

\* executeToolCalls returns: the tool messages are appended and the loop goes on
ToolResultsAppended(r) ==
    /\ pc[r] = "tools"
    /\ AllReturned(batch[r])
    /\ LET toolResults == AllResults(batch[r], finished[r])
           msgs == currentMessages[r] \o
                   [i \in 1..Len(toolResults) |-> ToolMessage(toolResults[i])]
       IN /\ currentMessages' = [currentMessages EXCEPT ![r] = msgs]
          /\ LoopStep(r, request[r], msgs, iterations[r])
    /\ batch' = [batch EXCEPT ![r] = <<>>]
    /\ received' = [received EXCEPT ![r].messages = LoopArray(@, currentMessages'[r])]
    /\ UNCHANGED <<maxConcurrentExecutions, currentExecutions, finished, confVars, streamVars, toolVars,
                   codecVars, request, capAtStart, execLog, batches>>

\* the forced last turn, or the single turn of a run without the loop, is
\* answered: the completion is returned as it is
LastAnswered(r) ==
    /\ pc[r] \in {"final", "single"}
    /\ \E response \in RemoteAnswers(iterations[r] + 1, Budget(r)) :
         returned' = [returned EXCEPT ![r] = response]
    /\ pc' = [pc EXCEPT ![r] = "done"]
    /\ UNCHANGED <<execVars, confVars, streamVars, toolVars, codecVars, received, request, capAtStart, currentMessages, iterations,
                   turnLog, lastRequest, execLog, batches>>

\* the remote stream is handed to the caller
StreamAnswered(r) ==
    /\ pc[r] = "stream"
    /\ pc' = [pc EXCEPT ![r] = "done"]
    /\ returned' = [returned EXCEPT ![r] = StreamReturn]
    /\ UNCHANGED <<execVars, confVars, streamVars, toolVars, codecVars, received, request, capAtStart, currentMessages, iterations,
                   turnLog, lastRequest, execLog, batches>>

(***************************************************************************)
(* The executor under direct callers of executeToolCalls.                  *)
(***************************************************************************)
\* executeToolCalls(toolCalls), up to its await
executeToolCalls(r) ==
    /\ batch[r] = <<>>
    /\ \E shapes \in CallSeqs(MaxCalls) :
         LET started == MapExecute(IdCalls(0, shapes), currentExecutions,
                                   maxConcurrentExecutions)
         IN /\ batch' = [batch EXCEPT ![r] = started.invs]
            /\ currentExecutions' = started.count
    /\ UNCHANGED <<maxConcurrentExecutions, finished, confVars, streamVars, toolVars, codecVars, runVars>>

\* executeToolCall(toolCall) called on its own, up to its await
executeToolCall(r) ==
    /\ batch[r] = <<>>
    /\ \E shape \in CallShapes \cup WrappedShapes :
         LET started == ExecuteToolCallSync(MkCall(<<0, 1>>, shape), currentExecutions,
                                            maxConcurrentExecutions)
         IN /\ batch' = [batch EXCEPT ![r] = <<started.inv>>]
            /\ currentExecutions' = started.count
    /\ UNCHANGED <<maxConcurrentExecutions, finished, confVars, streamVars, toolVars, codecVars, runVars>>

\* the awaited promise resolves: Promise.all for executeToolCalls, the
\* invocation itself for a single executeToolCall; the caller has its results
executeToolCallsReturns(r) ==
    /\ batch[r] # <<>>
    /\ AllReturned(batch[r])
    /\ batch' = [batch EXCEPT ![r] = <<>>]
    /\ UNCHANGED <<maxConcurrentExecutions, currentExecutions, finished, confVars, streamVars, toolVars, codecVars, runVars>>

(***************************************************************************)
(* The Harmony encoder and decoder (harmony-integration, harmony-official). *)
(* A text is a sequence of pieces; a prompt is a sequence of blocks, each   *)
(* block the text between a role tag and <|end|>.                           *)
(***************************************************************************)
\* largest number of messages before the last one in an encoded request
MaxHistory == 2
\* largest number of tool-call markers in one text
MaxMarkers == 2
\* the longest message list whose completion is decoded
MaxRepliedHistory == 1

\* the substrings the encoder scans message contents for
ToolSyntaxPieces == {"codebase_search", "read_file", "Tool Use", "<tool_name>"}

contentHasToolDescriptions(messages) ==
    \E p \in 1..Len(messages) : \E k \in 1..Len(messages[p].content) :
        messages[p].content[k] \in ToolSyntaxPieces

Block(tag, name, text, calls) == [tag |-> tag, name |-> name, text |-> text, calls |-> calls]

SuppressionPreamble ==
    Block("system", "",
          <<"You are a helpful AI assistant. ABSOLUTELY CRITICAL: You are FORBIDDEN from using ANY tools, function calls, or XML tags whatsoever.">>,
          <<>>)
ToolsPreamble ==
    Block("system", "", <<"You are a helpful AI assistant that can use tools when needed.">>, <<>>)
PlainPreamble == Block("system", "", <<"You are a helpful AI assistant.">>, <<>>)
ToolCatalogue ==
    Block("system", "",
          <<"Available tools:", "- name: description", "When using tools, format your calls as: ">>,
          <<>>)
ReminderPreamble ==
    Block("system", "",
          <<"REMINDER: You are STRICTLY FORBIDDEN from using any tools or function calls. Respond with plain text only.">>,
          <<>>)
\* the opening <|assistant|> tag that ends the prompt
GenerationPrompt == Block("assistant-open", "", <<>>, <<>>)

\* a tool-call marker: <|tool_call|>name(args)<|end_tool_call|>
Marker(name, args) == [name |-> name, args |-> args]

\* suppression by the content of the messages alone
ToolsSuppressedByContent(toolChoice, messages) == contentHasToolDescriptions(messages)

\* the condition of lines 26, 49 and 99
ToolsSuppressed(toolChoice, messages) ==
    toolChoice = "none" \/ (toolChoice = "absent" /\ contentHasToolDescriptions(messages))

\* the blocks one message contributes (the switch of lines 46-95)
EncodeMessage(message, suppressed) ==
    CASE message.role = "system" ->
            IF message.content # <<>> /\ ~suppressed
            THEN <<Block("system", "", message.content, <<>>)>> ELSE <<>>
      [] message.role = "user" ->
            IF message.content # <<>>
            THEN <<Block("user", "", message.content, <<>>)>> ELSE <<>>
      [] message.role = "assistant" ->
            <<Block("assistant", "", message.content,
                    [k \in 1..Len(message.tool_calls) |->
                        Marker(message.tool_calls[k].name, message.tool_calls[k].arguments)])>>
      [] message.role = "tool" ->
            IF message.content # <<>> /\ message.name # ""
            THEN <<Block("tool_result", message.name, message.content, <<>>)>> ELSE <<>>
      [] OTHER -> <<>>

RECURSIVE EncodeMessages(_, _)
EncodeMessages(messages, suppressed) ==
    IF messages = <<>> THEN <<>>
    ELSE EncodeMessage(Head(messages), suppressed) \o EncodeMessages(Tail(messages), suppressed)

\* convertToHarmonyFormat(messages, tools, addGenerationPrompt, toolChoice):
\* hasTools is tools && tools.length > 0
convertToHarmonyFormat(messages, hasTools, addGenerationPrompt, toolChoice) ==
    LET suppressed == ToolsSuppressed(toolChoice, messages) IN
    (IF suppressed THEN <<SuppressionPreamble>>
     ELSE IF hasTools THEN <<ToolsPreamble>> ELSE <<PlainPreamble>>)
    \o (IF hasTools /\ toolChoice # "none" THEN <<ToolCatalogue>> ELSE <<>>)
    \o EncodeMessages(messages, suppressed)
    \o (IF suppressed THEN <<ReminderPreamble>> ELSE <<>>)
    \o (IF addGenerationPrompt THEN <<GenerationPrompt>> ELSE <<>>)

\* harmony-official: the developer message that lists the tools
DeveloperMessage ==
    Block("system", "",
          <<"You have access to the following tools:", "- name: description",
            "When using tools, format your calls as: ">>,
          <<>>)

\* harmony-official: every message becomes a role and a text, a tool message
\* under the role user
HarmonyMessages(messages) ==
    [k \in 1..Len(messages) |->
        Block(IF messages[k].role = "tool" THEN "user" ELSE messages[k].role, "",
              messages[k].content, <<>>)]

\* convertToHarmonyFormat of harmony-official: the conversation handed to
\* renderConversation, which renders its messages in order
officialConvertToHarmonyFormat(messages, hasTools, toolChoice) ==
    LET harmonyMessages == HarmonyMessages(messages)
        systems == { k \in 1..Len(harmonyMessages) : harmonyMessages[k].tag = "system" }
    IN IF hasTools /\ toolChoice # "none"
       THEN IF systems # {}
            THEN LET systemIndex == CHOOSE k \in systems : \A q \in systems : k <= q IN
                 SubSeq(harmonyMessages, 1, systemIndex) \o <<DeveloperMessage>>
                 \o SubSeq(harmonyMessages, systemIndex + 1, Len(harmonyMessages))
            ELSE <<DeveloperMessage>> \o harmonyMessages
       ELSE harmonyMessages

\* argument texts: a JSON object, the same object with white space, a JSON
\* object with a closing parenthesis in a string, an object with unquoted key
\* and value, a truncated object, and the empty text
ArgObject    == <<"{\"query\":\"test\"}">>
ArgSpaced    == <<"{ \"query\": \"test\" }">>
ArgParen     == <<"{\"query\":\"f(x", ")", "\"}">>
ArgUnquoted  == <<"{query: test}">>
ArgTruncated == <<"{\"query\":">>
ArgNone      == <<>>
ArgEmptyObject == <<"{}">>

JSONObjectTexts == {ArgObject, ArgSpaced, ArgParen}
MarkerArgTexts == JSONObjectTexts \cup {ArgUnquoted, ArgTruncated, ArgNone}

\* JSON.parse: the value as a set of key/value pairs, or a failure
JSONParse(text) ==
    IF text \in {ArgObject, ArgSpaced} THEN [ok |-> TRUE, value |-> {<<"query", "test">>}]
    ELSE IF text = ArgParen THEN [ok |-> TRUE, value |-> {<<"query", "f(x)">>}]
    ELSE IF text = ArgEmptyObject THEN [ok |-> TRUE, value |-> {}]
    ELSE [ok |-> FALSE, value |-> {}]

\* JSON.stringify of such a value
JSONStringify(value) ==
    IF value = {} THEN ArgEmptyObject
    ELSE IF value = {<<"query", "test">>} THEN ArgObject
    ELSE ArgParen

\* the four replacements of harmony-official: quotes around property names and
\* around unquoted values, trailing commas removed
RepairArgs(text) == IF text = ArgUnquoted THEN ArgObject ELSE text

\* names of tool calls: \w+ matches the first two
WordNames == {"search", "web_search"}
MarkerNames == {"search", "get-weather"}

\* toolCallPattern, /<\|tool_call\|>(\w+)\(([^)]*)\)<\|end_tool_call\|>/, matches
\* the marker: a name of word characters, and no ")" before the one that is
\* followed by the closing tag
MatchesPattern(marker) ==
    /\ marker.name \in WordNames
    /\ \A k \in 1..Len(marker.args) : marker.args[k] # ")"

\* the arguments of the ToolCall built for a matched marker
DecodedArguments(parser, args) ==
    IF parser = "integration"
    THEN IF args = ArgNone THEN JSONStringify({})
         ELSE IF JSONParse(args).ok THEN JSONStringify(JSONParse(args).value)
         ELSE args
    ELSE IF args = ArgNone THEN ArgEmptyObject
         ELSE IF JSONParse(args).ok THEN JSONStringify(JSONParse(args).value)
         ELSE IF JSONParse(RepairArgs(args)).ok
              THEN JSONStringify(JSONParse(RepairArgs(args)).value)
              ELSE ArgEmptyObject

\* parseHarmonyResponse of harmony-integration or harmony-official, on a text
\* given as its plain pieces and its markers in order
parseHarmonyResponse(parser, content) ==
    LET matched == SelectSeq(content.calls, MatchesPattern)
        toolCalls == [k \in 1..Len(matched) |->
                         MkCall(<<"call", k>>,
                                <<matched[k].name, DecodedArguments(parser, matched[k].args)>>)]
    IN [parser |-> parser, content |-> content.text, toolCalls |-> toolCalls,
        finishReason |-> IF Len(toolCalls) > 0 THEN "tool_calls" ELSE "stop"]

NoHarmonyRequest ==
    [encoder |-> "none", messages |-> <<>>, tools |-> FALSE, tool_choice |-> "absent"]
NoContent == [source |-> "none", text |-> <<>>, calls |-> <<>>]
NoParsed == [parser |-> "none", content |-> <<>>, toolCalls |-> <<>>, finishReason |-> "stop"]

\* messages of the requests that are encoded
HistoryMessages ==
    { UserMessage,
      Message("user", <<"how do I use ", "read_file", "?">>, "", NoCalls, NoId),
      Message("system", <<"be brief">>, "", NoCalls, NoId),
      Message("tool", <<"Error: ", "Tool execution timeout">>, "calc", NoCalls, <<1, 1>>),
      Message("tool", <<"json:", "4">>, "", NoCalls, <<1, 1>>),
      CapMessage }

MarkerSeqs(names, texts, n) ==
    UNION { [1..k -> { Marker(nm, tx) : nm \in names, tx \in texts }] : k \in 0..n }

\* assistant messages carrying tool calls whose arguments are JSON objects
CallingMessages ==
    { Message("assistant", <<"text">>, "",
              [k \in 1..Len(ms) |-> MkCall(<<1, k>>, <<ms[k].name, ms[k].args>>)], NoId) :
        ms \in MarkerSeqs({"search"}, JSONObjectTexts, MaxMarkers) \ {<<>>} }

\* the two clients: one imports harmony-integration, one harmony-official
Encoders == {"integration", "official"}

Histories == UNION { [1..k -> HistoryMessages] : k \in 1..MaxHistory }

HarmonyRequests ==
    { [encoder |-> e, messages |-> h \o last, tools |-> t, tool_choice |-> c] :
        e \in Encoders, h \in Histories,
        last \in {<<>>} \cup { <<m>> : m \in CallingMessages },
        t \in BOOLEAN, c \in ToolChoices }

\* GroqClient.createChatCompletion for a gpt-oss model, up to the prompt
createChatCompletion ==
    /\ harmonyRequest = NoHarmonyRequest
    /\ harmonyContent = NoContent
    /\ \E req \in HarmonyRequests :
         LET effectiveTools == IF req.tool_choice = "none" THEN FALSE ELSE req.tools IN
         /\ harmonyRequest' = req
         /\ harmonyPrompt' =
              IF req.encoder = "integration"
              THEN convertToHarmonyFormat(req.messages, effectiveTools, TRUE, req.tool_choice)
              ELSE officialConvertToHarmonyFormat(req.messages, effectiveTools,
                                                  req.tool_choice)
    /\ UNCHANGED <<execVars, confVars, streamVars, toolVars, runVars, harmonyContent, parsedResponse>>

\* the content of a completion is decoded
ResponseParsed ==
    /\ harmonyRequest = NoHarmonyRequest
    /\ harmonyContent = NoContent
    /\ \E parser \in {"integration", "official"},
          ms \in MarkerSeqs(MarkerNames, MarkerArgTexts, MaxMarkers) :
         LET content == [source |-> "model", text |-> <<"text">>, calls |-> ms] IN
         /\ harmonyContent' = content
         /\ parsedResponse' = parseHarmonyResponse(parser, content)
    /\ UNCHANGED <<execVars, confVars, streamVars, toolVars, runVars, harmonyRequest, harmonyPrompt>>

\* the text the encoder emitted for the last message of the request, an
\* assistant message with tool calls, is decoded again
HistoryReplayed ==
    /\ harmonyRequest # NoHarmonyRequest
    /\ harmonyRequest.encoder = "integration"
    /\ harmonyContent = NoContent
    /\ Last(harmonyRequest.messages) \in CallingMessages
    /\ LET block == EncodeMessage(Last(harmonyRequest.messages), FALSE)[1]
           content == [source |-> "history", text |-> block.text, calls |-> block.calls]
       IN /\ harmonyContent' = content
          /\ parsedResponse' = parseHarmonyResponse("integration", content)
    /\ UNCHANGED <<execVars, confVars, streamVars, toolVars, runVars, harmonyRequest, harmonyPrompt>>

\* the remote model answers an encoded request and createChatCompletion
\* decodes the answer (lines 384-393): the parser is the one of the client, the
\* request's tool_choice is not consulted
CompletionReturned ==
    /\ harmonyRequest # NoHarmonyRequest
    /\ harmonyContent = NoContent
    /\ Len(harmonyRequest.messages) <= MaxRepliedHistory
    /\ \E ms \in MarkerSeqs({"search"}, {ArgObject}, MaxMarkers) :
         LET content == [source |-> "completion", text |-> <<"text">>, calls |-> ms] IN
         /\ harmonyContent' = content
         /\ parsedResponse' = parseHarmonyResponse(harmonyRequest.encoder, content)
    /\ UNCHANGED <<execVars, confVars, streamVars, toolVars, runVars, harmonyRequest, harmonyPrompt>>

(***************************************************************************)
(* GroqClient.processGptOssStream.                                         *)
(***************************************************************************)
\* largest number of lines the remote service sends in one stream
MaxLines == 3

\* pieces of delta content: the start of a tool-call marker up to its opening
\* parenthesis, the closing parenthesis with the closing tag, and the text of
\* a JSON object
PieceOpen  == "<|tool_call|>search("
PieceClose == ")<|end_tool_call|>"
PieceArgs  == ArgObject[1]

\* a line of the stream.  kind "content" is 'data: ' and a JSON payload whose
\* delta has the content given; "payload" is 'data: ' and a JSON payload
\* without delta content; "malformed" is 'data: ' and a text JSON.parse
\* rejects; "empty" is the empty line; "done" is 'data: [DONE]'; "tool_calls"
\* is the chunk the function builds.  part tells whether the text is the whole
\* line or what a chunk boundary inside the line left of it.
Line(kind, content, calls, part) ==
    [kind |-> kind, content |-> content, tool_calls |-> calls, part |-> part]

ContentLine(piece) == Line("content", <<piece>>, <<>>, "whole")
PayloadLine   == Line("payload", <<>>, <<>>, "whole")
MalformedLine == Line("malformed", <<>>, <<>>, "whole")
EmptyLine     == Line("empty", <<>>, <<>>, "whole")
DoneLine      == Line("done", <<>>, <<>>, "whole")

UpstreamLineSet ==
    { ContentLine(piece) : piece \in {PieceOpen, PieceArgs, PieceClose} }
        \cup {PayloadLine, MalformedLine, EmptyLine, DoneLine}

UpstreamStreams == UNION { [1..n -> UpstreamLineSet] : n \in 1..MaxLines }

\* the two texts a chunk boundary inside a line makes of it
HeadOf(line) == [line EXCEPT !.part = "head"]
TailOf(line) == [line EXCEPT !.part = "tail"]

\* line.startsWith('data: '): the head of a line keeps its first characters
StartsWithData(line) == line.kind # "empty" /\ line.part # "tail"
\* line === 'data: [DONE]'
IsDone(line) == line.kind = "done" /\ line.part = "whole"
\* JSON.parse(line.slice(6)) returns
ParsesAsJSON(line) == line.kind \in {"content", "payload"} /\ line.part = "whole"
\* data.choices?.[0]?.delta?.content
DeltaContent(line) == line.content

\* the markers toolCallPattern finds in a text given as its pieces: from a
\* piece that opens a marker to the next piece that closes one
RECURSIVE ScanMarkers(_)
ScanMarkers(pieces) ==
    LET opens == { k \in 1..Len(pieces) : pieces[k] = PieceOpen } IN
    IF opens = {} THEN <<>>
    ELSE LET first == CHOOSE k \in opens : \A q \in opens : k <= q
             closes == { k \in (first + 1)..Len(pieces) : pieces[k] = PieceClose }
         IN IF closes = {} THEN <<>>
            ELSE LET last == CHOOSE k \in closes : \A q \in closes : k <= q IN
                 <<Marker("search", SubSeq(pieces, first + 1, last - 1))>>
                     \o ScanMarkers(SubSeq(pieces, last + 1, Len(pieces)))

\* parseHarmonyResponse(accumulatedContent, originalRequest).toolCalls
StreamToolCalls(pieces) ==
    IF pieces = <<>> THEN <<>>
    ELSE parseHarmonyResponse("integration",
                              [source |-> "stream", text |-> pieces,
                               calls |-> ScanMarkers(pieces)]).toolCalls

\* toolCallChunk
ToolCallChunk(calls) == Line("tool_calls", <<>>, calls, "whole")

\* the for loop over the lines of one chunk (lines 510-566): what has been
\* accumulated and enqueued after it
RECURSIVE ProcessLines(_, _, _)
ProcessLines(lines, accumulated, out) ==
    IF lines = <<>> THEN [accumulated |-> accumulated, out |-> out]
    ELSE LET line == Head(lines) IN
         IF StartsWithData(line) /\ ~IsDone(line)
         THEN IF ParsesAsJSON(line) /\ DeltaContent(line) # <<>>
              THEN ProcessLines(Tail(lines), accumulated \o DeltaContent(line),
                                Append(out, line))
              ELSE ProcessLines(Tail(lines), accumulated, Append(out, line))
         ELSE IF IsDone(line)
         THEN \* break: the lines after the sentinel in this chunk are not visited
              [accumulated |-> accumulated,
               out |-> out \o (IF StreamToolCalls(accumulated) # <<>>
                               THEN <<ToolCallChunk(StreamToolCalls(accumulated))>>
                               ELSE <<>>)
                           \o <<line>>]
         ELSE ProcessLines(Tail(lines), accumulated, Append(out, line))

\* text.split('\n') of a chunk that holds the given lines: a chunk that ends
\* with the line feed of its last line yields an empty string after it, a chunk
\* that ends inside its last line yields the head of that line
SplitLines(lines, endsInside) ==
    IF endsInside
    THEN SubSeq(lines, 1, Len(lines) - 1) \o <<HeadOf(lines[Len(lines)])>>
    ELSE Append(lines, EmptyLine)

\* the stream is requested: createStreamingChatCompletion hands the body of
\* the remote answer to processGptOssStream
processGptOssStream ==
    /\ controllerState = "idle"
    /\ \E lines \in UpstreamStreams :
         /\ upstreamLines' = lines
         /\ sourceStream' = lines
    /\ enqueued' = <<>>
    /\ accumulatedContent' = <<>>
    /\ controllerState' = "open"
    /\ UNCHANGED <<execVars, confVars, runVars, codecVars, toolVars>>

\* reader.read() resolves with a chunk, which holds the next k lines, the
\* last of them up to its line feed or up to some character inside it, and
\* the loop body runs on it
ChunkRead ==
    /\ controllerState = "open"
    /\ \E k \in 1..Len(sourceStream), endsInside \in BOOLEAN :
         /\ endsInside => /\ sourceStream[k].part = "whole"
                          /\ sourceStream[k].kind # "empty"
         /\ LET lines == SplitLines(SubSeq(sourceStream, 1, k), endsInside)
                after == ProcessLines(lines, accumulatedContent, enqueued)
            IN /\ accumulatedContent' = after.accumulated
               /\ enqueued' = after.out
               /\ sourceStream' = (IF endsInside THEN <<TailOf(sourceStream[k])>> ELSE <<>>)
                                      \o SubSeq(sourceStream, k + 1, Len(sourceStream))
    /\ UNCHANGED <<execVars, confVars, runVars, codecVars, toolVars, upstreamLines,
                   controllerState>>

\* reader.read() resolves with done: controller.close()
StreamDone ==
    /\ controllerState = "open"
    /\ sourceStream = <<>>
    /\ controllerState' = "closed"
    /\ UNCHANGED <<execVars, confVars, runVars, codecVars, toolVars, upstreamLines,
                   sourceStream, enqueued, accumulatedContent>>

\* reader.read() rejects: controller.error(error)
StreamFails ==
    /\ controllerState = "open"
    /\ controllerState' = "errored"
    /\ UNCHANGED <<execVars, confVars, runVars, codecVars, toolVars, upstreamLines,
                   sourceStream, enqueued, accumulatedContent>>

(***************************************************************************)
(* ToolRegistry, and the tool options of EnhancedChatHandler.              *)
(***************************************************************************)
\* largest number of registerTool calls after construction
MaxRegistrations == 1
\* largest number of custom tools of a handler
MaxCustomTools == 1
\* largest number of tools in a caller's request
MaxCallerTools == 1

\* the limits of setMaxToolIterations
MinToolIterations == 1
MaxToolIterations == 10

\* a ToolFunction: its name and which definition it is; the definition
\* "failing" is one whose execute throws
ToolFunction(name, definition) == [name |-> name, definition |-> definition]
ToolNames == {"calc", "search"}
RegistrableTools ==
    { ToolFunction(name, definition) : name \in ToolNames,
                                       definition \in {"override", "failing"} }

\* registerBuiltInTools
BuiltInTools == <<ToolFunction("calc", "built-in")>>

\* Map.get on the entries in insertion order
MapGet(map, name) ==
    LET found == { k \in 1..Len(map) : map[k].name = name } IN
    IF found = {} THEN <<>> ELSE <<map[CHOOSE k \in found : \A q \in found : k <= q]>>

\* a Map.set that leaves an entry of the same name as it is
MapSetKeepsFirst(map, tool) ==
    IF MapGet(map, tool.name) # <<>> THEN map ELSE Append(map, tool)

\* Map.set: an entry of the same name is overwritten in its place
MapSet(map, tool) ==
    IF MapGet(map, tool.name) # <<>>
    THEN [k \in 1..Len(map) |-> IF map[k].name = tool.name THEN tool ELSE map[k]]
    ELSE Append(map, tool)

\* a call of a method, its argument, and how it ended: outcome "returned" with
\* the value returned, or "threw" with the message of the Error
Call(method, argument, outcome, value) ==
    [method |-> method, argument |-> argument, outcome |-> outcome, value |-> value]
NoCall == Call("none", <<>>, "returned", <<>>)

\* what tool.execute does
ExecuteThrows(tool) == tool.definition = "failing"
ExecuteResult(tool) == <<"result of ", tool.name>>

\* a catch block that lets the Error of the tool through
executeToolOutcomeUncaught(map, name, thrown) ==
    IF MapGet(map, name) = <<>> THEN [outcome |-> "threw", value |-> ErrNotFound(name)]
    ELSE IF ExecuteThrows(MapGet(map, name)[1])
         THEN [outcome |-> "threw", value |-> thrown]
         ELSE [outcome |-> "returned", value |-> ExecuteResult(MapGet(map, name)[1])]

\* ToolRegistry.executeTool(name, args), for a tool that throws the given text
\* if it throws
executeToolOutcome(map, name, thrown) ==
    IF MapGet(map, name) = <<>> THEN [outcome |-> "threw", value |-> ErrNotFound(name)]
    ELSE IF ExecuteThrows(MapGet(map, name)[1])
         THEN [outcome |-> "threw", value |-> ExecuteToolError(thrown)]
         ELSE [outcome |-> "returned", value |-> ExecuteResult(MapGet(map, name)[1])]

\* getToolsAsOpenAIFormat, and the tools of callers and of the customTools option
OpenAITool(name, definition) == [name |-> name, definition |-> definition]
getToolsAsOpenAIFormat(map) ==
    [k \in 1..Len(map) |-> OpenAITool(map[k].name, map[k].definition)]
CallerTools == { OpenAITool(name, "caller") : name \in ToolNames }
CustomTools == { OpenAITool(name, "custom") : name \in ToolNames }
CallerToolLists == UNION { [1..n -> CallerTools] : n \in 0..MaxCallerTools }

\* the tools of the handler before those of the request
allToolsAvailableFirst(existingTools, availableTools) == availableTools \o existingTools

\* allTools of enhanceRequestWithTools
allTools(existingTools, availableTools) == existingTools \o availableTools

\* uniqueTools: the first tool of every name
uniqueTools(all) ==
    SelectSeq([k \in 1..Len(all) |->
                  [tool |-> all[k],
                   first |-> \A q \in 1..(k - 1) : all[q].name # all[k].name]],
              LAMBDA e : e.first)

\* whether enhanceRequestWithTools merges (the condition of line 152, negated)
MergesTools(toolChoice, builtIn, custom) ==
    toolChoice # "none" /\ (builtIn \/ custom # <<>>)

\* the tools of the request enhanceRequestWithTools returns
EnhancedTools(existingTools, toolChoice, builtIn, map, custom) ==
    IF ~MergesTools(toolChoice, builtIn, custom) THEN existingTools
    ELSE LET availableTools ==
                 (IF builtIn THEN getToolsAsOpenAIFormat(map) ELSE <<>>) \o custom
             unique == uniqueTools(allTools(existingTools, availableTools))
         IN [k \in 1..Len(unique) |-> unique[k].tool]

\* the maxToolIterations option of the constructor, and the argument of
\* setMaxToolIterations
CapArguments ==
    {MinToolIterations - 1, MinToolIterations, MaxToolIterations, MaxToolIterations + 1}

\* Math.max(1, Math.min(max, 10))
Clamp(max) ==
    IF Min(max, MaxToolIterations) > MinToolIterations
    THEN Min(max, MaxToolIterations) ELSE MinToolIterations

registerTool ==
    /\ \E tool \in RegistrableTools :
         /\ Len(registrations) < Len(BuiltInTools) + MaxRegistrations
         /\ tools' = MapSet(tools, tool)
         /\ registrations' = Append(registrations, tool)
         /\ lastCall' = Call("registerTool", tool, "returned", <<>>)
    /\ UNCHANGED <<execVars, confVars, runVars, codecVars, streamVars, includeBuiltInTools,
                   customTools>>

getTool ==
    /\ \E name \in ToolNames :
         lastCall' = Call("getTool", name, "returned", MapGet(tools, name))
    /\ UNCHANGED <<execVars, confVars, runVars, codecVars, streamVars, tools, registrations,
                   includeBuiltInTools, customTools>>

\* executeTool from its call to the settling of the promise it returns
executeTool ==
    /\ \E name \in ToolNames, thrown \in ToolThrowTexts :
         LET ended == executeToolOutcome(tools, name, thrown) IN
         lastCall' = Call("executeTool", <<name, thrown>>, ended.outcome, ended.value)
    /\ UNCHANGED <<execVars, confVars, runVars, codecVars, streamVars, tools, registrations,
                   includeBuiltInTools, customTools>>

addCustomTool ==
    /\ Len(customTools) < MaxCustomTools
    /\ \E tool \in CustomTools :
         /\ customTools' = Append(customTools, tool)
         /\ lastCall' = Call("addCustomTool", tool, "returned", <<>>)
    /\ UNCHANGED <<execVars, confVars, runVars, codecVars, streamVars, tools, registrations,
                   includeBuiltInTools>>

\* enhanceRequestWithTools is called for a request with the given tools
RequestEnhanced ==
    /\ \E existingTools \in CallerToolLists, toolChoice \in ToolChoices :
         lastCall' = Call("enhanceRequestWithTools", <<existingTools, toolChoice>>, "returned",
                          EnhancedTools(existingTools, toolChoice, includeBuiltInTools, tools,
                                        customTools))
    /\ UNCHANGED <<execVars, confVars, runVars, codecVars, streamVars, tools, registrations,
                   includeBuiltInTools, customTools>>

setMaxToolIterations ==
    /\ \E max \in CapArguments :
         /\ maxToolIterations' = Clamp(max)
         /\ lastCall' = Call("setMaxToolIterations", max, "returned", <<>>)
    /\ UNCHANGED <<execVars, enableAutoToolExecution, runVars, codecVars, streamVars, tools,
                   registrations, includeBuiltInTools, customTools>>

setAutoToolExecution ==
    /\ \E enabled \in BOOLEAN : enableAutoToolExecution' = enabled
    /\ UNCHANGED <<execVars, maxToolIterations, runVars, codecVars, streamVars, toolVars>>

(***************************************************************************)
(* server.ts: POST /v1/chat/completions.                                   *)
(***************************************************************************)
\* createErrorResponse(message, type, status)
createErrorResponse(message, type, status) ==
    [status |-> status, error |-> [message |-> message, type |-> type]]

\* createSuccessResponse and createStreamResponse
createSuccessResponse(data) == [status |-> 200, error |-> [message |-> <<>>, type |-> ""]]

\* the Response of the route for what the handler returned or threw: every
\* Error the handler throws is answered by the catch block of line 161
fetchChatCompletions(ret) ==
    IF ret.kind = "error"
    THEN createErrorResponse(ret.message, "internal_server_error", 500)
    ELSE createSuccessResponse(ret)

(***************************************************************************)
(* Specifications.                                                         *)
(***************************************************************************)
\* options.maxToolIterations ?? 5
DefaultMaxToolIterations == 5

RunInit ==
    /\ pc = [r \in Runs |-> "idle"]
    /\ received = [r \in Runs |-> NoRequest]
    /\ request = [r \in Runs |-> NoRequest]
    /\ currentMessages = [r \in Runs |-> <<>>]
    /\ iterations = [r \in Runs |-> 0]
    /\ capAtStart = [r \in Runs |-> 0]
    /\ turnLog = [r \in Runs |-> <<>>]
    /\ lastRequest = [r \in Runs |-> NoRequest]
    /\ execLog = [r \in Runs |-> <<>>]
    /\ batches = [r \in Runs |-> 0]
    /\ returned = [r \in Runs |-> NoReturn]

CodecInit ==
    /\ harmonyRequest = NoHarmonyRequest
    /\ harmonyPrompt = <<>>
    /\ harmonyContent = NoContent
    /\ parsedResponse = NoParsed

\* no stream has been requested
StreamInit ==
    /\ upstreamLines = <<>>
    /\ sourceStream = <<>>
    /\ enqueued = <<>>
    /\ accumulatedContent = <<>>
    /\ controllerState = "idle"

\* new ToolRegistry(), and the defaults of includeBuiltInTools and customTools
ToolsInit ==
    /\ tools = BuiltInTools
    /\ registrations = BuiltInTools
    /\ includeBuiltInTools = TRUE
    /\ customTools = <<>>
    /\ lastCall = NoCall

ExecutorInit ==
    /\ maxConcurrentExecutions \in 1..MaxCeiling
    /\ currentExecutions = 0
    /\ batch = [r \in Runs |-> <<>>]
    /\ finished = [r \in Runs |-> <<>>]

\* one chat-completion run of a handler constructed with any options
Init ==
    /\ ExecutorInit
    /\ enableAutoToolExecution \in BOOLEAN
    /\ maxToolIterations \in 0..MaxCap
    /\ RunInit
    /\ CodecInit
    /\ StreamInit
    /\ ToolsInit

Next ==
    \E r \in LoopRuns :
        \/ handleChatCompletion(r)
        \/ handleStreamingChatCompletion(r)
        \/ RemoteFails(r)
        \/ TurnAnswered(r)
        \/ ToolResultsAppended(r)
        \/ LastAnswered(r)
        \/ StreamAnswered(r)
        \/ \E i \in 1..MaxCalls : ToolSettles(r, i)
        \/ \E i \in 1..MaxCalls : ToolTimesOut(r, i)
        \/ \E i \in 1..MaxCalls : ToolSettlesLate(r, i)

Spec == Init /\ [][Next]_vars

\* one chat-completion run of a handler whose settings are changed before or
\* during the run: one setMaxToolIterations call, any setAutoToolExecution calls
ConfiguredInit == Init /\ maxConcurrentExecutions = 1

ConfiguredNext ==
    \/ Next
    \/ lastCall = NoCall /\ setMaxToolIterations
    \/ setAutoToolExecution

SpecConfigured == ConfiguredInit /\ [][ConfiguredNext]_vars

\* several callers of executeToolCalls sharing the default executor
ExecInit ==
    /\ ExecutorInit
    /\ enableAutoToolExecution = TRUE
    /\ maxToolIterations = DefaultMaxToolIterations
    /\ RunInit
    /\ CodecInit
    /\ StreamInit
    /\ ToolsInit

ExecNext ==
    \E r \in Runs :
        \/ executeToolCalls(r)
        \/ executeToolCallsReturns(r)
        \/ \E i \in 1..MaxCalls : ToolSettles(r, i)
        \/ \E i \in 1..MaxCalls : ToolTimesOut(r, i)
        \/ \E i \in 1..MaxCalls : ToolSettlesLate(r, i)

SpecExec == ExecInit /\ [][ExecNext]_vars

\* callers of executeToolCall, one of them also of executeToolCalls; every
\* timer set by setTimeout fires unless its invocation has returned before
CallNext ==
    \E r \in Runs :
        \/ executeToolCall(r)
        \/ r \in LoopRuns /\ executeToolCalls(r)
        \/ executeToolCallsReturns(r)
        \/ \E i \in 1..MaxCalls : ToolSettles(r, i)
        \/ \E i \in 1..MaxCalls : ToolTimesOut(r, i)
        \/ \E i \in 1..MaxCalls : ToolSettlesLate(r, i)

TimersFire == \A r \in Runs : \A i \in 1..MaxCalls : WF_vars(ToolTimesOut(r, i))

SpecCall == ExecInit /\ [][CallNext]_vars /\ TimersFire

\* requests encoded and completions decoded by one client
HarmonyNext ==
    \/ createChatCompletion
    \/ ResponseParsed
    \/ HistoryReplayed
    \/ CompletionReturned

SpecHarmony == ExecInit /\ [][HarmonyNext]_vars

\* one streamed completion of a gpt-oss model
StreamNext ==
    \/ processGptOssStream
    \/ ChunkRead
    \/ StreamDone
    \/ StreamFails

StreamSpecInit == ExecInit /\ maxConcurrentExecutions = 1

SpecStream == StreamSpecInit /\ [][StreamNext]_vars

\* the same, where the read that reports the end of the upstream body resolves
StreamEnds == WF_vars(StreamDone)

SpecStreamFair == SpecStream /\ StreamEnds

\* a handler constructed with any maxToolIterations and includeBuiltInTools
\* options, over the default registry
HandlerInit ==
    /\ ExecutorInit
    /\ maxConcurrentExecutions = 1
    /\ enableAutoToolExecution = TRUE
    /\ maxToolIterations \in {DefaultMaxToolIterations} \cup CapArguments
    /\ RunInit
    /\ CodecInit
    /\ StreamInit
    /\ tools = BuiltInTools
    /\ registrations = BuiltInTools
    /\ includeBuiltInTools \in BOOLEAN
    /\ customTools = <<>>
    /\ lastCall = NoCall

HandlerNext ==
    \/ registerTool
    \/ getTool
    \/ executeTool
    \/ addCustomTool
    \/ RequestEnhanced
    \/ setMaxToolIterations

SpecHandler == HandlerInit /\ [][HandlerNext]_vars

(***************************************************************************)
(* Properties.                                                             *)
(***************************************************************************)
\* a non-streamed run of a handler with auto-execution on, tool_choice not 'none'
FromLoop(r) ==
    /\ pc[r] # "idle"
    /\ ~received[r].stream
    /\ enableAutoToolExecution
    /\ received[r].tool_choice # "none"

\* positions of the assistant messages that carry tool calls
CallingTurns(msgs) ==
    { p \in 1..Len(msgs) : msgs[p].role = "assistant" /\ Len(msgs[p].tool_calls) > 0 }

\* ids of the tool calls of all assistant messages, in conversation order
RECURSIVE CallIds(_)
CallIds(msgs) ==
    IF msgs = <<>> THEN <<>>
    ELSE [i \in 1..Len(Head(msgs).tool_calls) |-> Head(msgs).tool_calls[i].id]
         \o CallIds(Tail(msgs))

Occurrences(seq, x) == Cardinality({ j \in 1..Len(seq) : seq[j] = x })

\* the forced last turn was issued: one remote call more than loop iterations
CapReached(r) == FromLoop(r) /\ Len(turnLog[r]) = iterations[r] + 1

\* the loop returned the answer of a turn without tool calls
NaturalReturn(r) ==
    /\ FromLoop(r)
    /\ pc[r] = "done"
    /\ Len(currentMessages[r]) > Len(received[r].messages)
    /\ Last(currentMessages[r]).role = "assistant"
    /\ Len(Last(currentMessages[r]).tool_calls) = 0

Running(r) == { i \in 1..Len(batch[r]) : batch[r][i].st = "running" }

\* the calls whose tool was invoked through the registry
Ran(invs) == { i \in 1..Len(invs) : invs[i].tool # "none" }

GoodCall(call) ==
    /\ call.name \in RegisteredTools
    /\ ParseOK(call.arguments)
    /\ HasRequired(UnwrapArgs(call.arguments))

\* C1: a loop run never issues more than maxToolIterations + 1 model turns; when
\* every turn of the loop was answered with tool calls and the run has returned,
\* it issued exactly maxToolIterations turns with the request's tool_choice (not
\* 'none') followed by exactly one turn with tool_choice 'none'.
C1_LoopTermination ==
    \A r \in LoopRuns :
        FromLoop(r) =>
            /\ Len(turnLog[r]) <= maxToolIterations + 1
            /\ iterations[r] <= maxToolIterations
            /\ (pc[r] = "done"
                /\ Cardinality(CallingTurns(currentMessages[r])) = iterations[r])
               => /\ Len(turnLog[r]) = maxToolIterations + 1
                  /\ \A i \in 1..maxToolIterations : turnLog[r][i] # "none"
                  /\ turnLog[r][maxToolIterations + 1] = "none"

C1_Witness ==
    \E r \in LoopRuns :
        /\ FromLoop(r)
        /\ pc[r] = "done"
        /\ maxToolIterations >= 2
        /\ Cardinality(CallingTurns(currentMessages[r])) = maxToolIterations
        /\ Len(turnLog[r]) = maxToolIterations + 1
        /\ returned[r].kind = "response"

\* C2: when the first k turns carried tool calls and turn k+1 carries none, the
\* run has issued exactly k+1 turns (k < maxToolIterations), has handed every
\* tool call of those k turns to the executor exactly once, returns the message
\* of turn k+1 as the only choice, and no invocation is left or started.
C2_ReturnsFirstPlainAnswer ==
    \A r \in LoopRuns :
        NaturalReturn(r) =>
            LET k == Cardinality(CallingTurns(currentMessages[r])) IN
            /\ k < maxToolIterations
            /\ Len(turnLog[r]) = k + 1
            /\ batches[r] = k
            /\ execLog[r] = CallIds(currentMessages[r])
            /\ \A j \in 1..Len(execLog[r]) : Occurrences(execLog[r], execLog[r][j]) = 1
            /\ returned[r] = Response(1, Last(currentMessages[r]))
            /\ batch[r] = <<>>
            /\ currentExecutions = 0

C2_Witness ==
    \E r \in LoopRuns :
        /\ NaturalReturn(r)
        /\ Cardinality(CallingTurns(currentMessages[r])) >= 1
        /\ Len(execLog[r]) >= 2

\* C3: once the tool messages of an assistant message are appended, the i-th of
\* them is the result of its i-th tool call, whatever order the tools returned in.
C3_ResultsInCallOrder ==
    \A r \in LoopRuns :
        \A p \in CallingTurns(currentMessages[r]) :
            Len(currentMessages[r]) > p =>
                \A i \in 1..Len(currentMessages[r][p].tool_calls) :
                    /\ p + i <= Len(currentMessages[r])
                    /\ currentMessages[r][p + i].role = "tool"
                    /\ currentMessages[r][p + i].tool_call_id =
                           currentMessages[r][p].tool_calls[i].id
                    /\ currentMessages[r][p + i].name =
                           currentMessages[r][p].tool_calls[i].name

\* the second call of the latest batch returned before the first, and the tool
\* messages of that batch have been appended
C3_Witness ==
    \E r \in LoopRuns :
        /\ pc[r] \in {"turn", "final"}
        /\ finished[r] = <<2, 1>>
        /\ Len(currentMessages[r]) >= 3
        /\ Last(currentMessages[r]).role = "tool"
        /\ Last(currentMessages[r]).tool_call_id[2] = 2
        /\ currentMessages[r][Len(currentMessages[r]) - 1].tool_call_id[2] = 1

\* the latest assistant message before position p, 0 when there is none
LastAssistantBefore(msgs, p) ==
    LET before == { q \in 1..(p - 1) : msgs[q].role = "assistant" }
    IN IF before = {} THEN 0 ELSE CHOOSE q \in before : \A q2 \in before : q2 <= q

\* C4: every tool message carries the id of a tool call of the latest assistant
\* message before it, and in every request sent to the model each tool call of
\* each assistant message has exactly one tool message with its id.
C4_NoOrphanedToolResults ==
    \A r \in LoopRuns :
        /\ \A p \in 1..Len(currentMessages[r]) :
             currentMessages[r][p].role = "tool" =>
                LET q == LastAssistantBefore(currentMessages[r], p) IN
                /\ q > 0
                /\ \E i \in 1..Len(currentMessages[r][q].tool_calls) :
                     currentMessages[r][q].tool_calls[i].id =
                         currentMessages[r][p].tool_call_id
        /\ LET sent == lastRequest[r].messages IN
           \A q \in CallingTurns(sent) :
               \A i \in 1..Len(sent[q].tool_calls) :
                   Cardinality({ p \in (q + 1)..Len(sent) :
                                   /\ sent[p].role = "tool"
                                   /\ sent[p].tool_call_id = sent[q].tool_calls[i].id }) = 1

\* a request to the model that carries the message of a rejected call and the
\* message of a call that timed out
C4_Witness ==
    \E r \in LoopRuns :
        /\ pc[r] = "turn"
        /\ \E p \in 1..Len(lastRequest[r].messages) :
             /\ lastRequest[r].messages[p].role = "tool"
             /\ lastRequest[r].messages[p].content = <<"Error: ">> \o ErrRejected
        /\ \E p \in 1..Len(lastRequest[r].messages) :
             /\ lastRequest[r].messages[p].role = "tool"
             /\ lastRequest[r].messages[p].content = <<"Error: ">> \o ErrTimeout

\* C5: at most maxToolIterations batches are executed; when the cap is reached
\* the last request is the accumulated messages followed by the one synthetic
\* system message, with tool_choice 'none'; its completion is returned and none
\* of its tool calls is executed; the run fails then only if the remote call does.
C5_ForcedFinalTurn ==
    \A r \in LoopRuns :
        /\ FromLoop(r) => batches[r] <= maxToolIterations
        /\ CapReached(r) =>
            /\ iterations[r] = maxToolIterations
            /\ lastRequest[r].messages = currentMessages[r] \o <<CapMessage>>
            /\ Occurrences(lastRequest[r].messages, CapMessage) = 1
            /\ lastRequest[r].tool_choice = "none"
            /\ Last(turnLog[r]) = "none"
            /\ pc[r] \in {"final", "done", "failed"}
            /\ batch[r] = <<>>
            /\ execLog[r] = CallIds(currentMessages[r])
            /\ pc[r] = "done" => returned[r].kind = "response"
            /\ pc[r] = "failed" => returned[r] = ErrorReturn("Groq API request failed")

C5_Witness ==
    \E r \in LoopRuns :
        /\ CapReached(r)
        /\ pc[r] = "done"
        /\ maxToolIterations >= 1
        /\ batches[r] = maxToolIterations
        /\ returned[r].choices > 0
        /\ Len(returned[r].message.tool_calls) > 0

\* C6: a non-streamed request with tool_choice 'none', or any non-streamed
\* request when auto-execution is off, makes one model turn and runs no tool.
C6_NoLoopWhenDisabled ==
    \A r \in LoopRuns :
        (/\ pc[r] # "idle"
         /\ ~received[r].stream
         /\ (received[r].tool_choice = "none" \/ ~enableAutoToolExecution))
        => /\ Len(turnLog[r]) <= 1
           /\ pc[r] = "done" => Len(turnLog[r]) = 1
           /\ execLog[r] = <<>>
           /\ batches[r] = 0
           /\ batch[r] = <<>>
           /\ currentExecutions = 0

C6_Witness ==
    \E r \in LoopRuns :
        /\ pc[r] = "done"
        /\ ~received[r].stream
        /\ enableAutoToolExecution
        /\ received[r].tool_choice = "none"
        /\ returned[r].choices > 0
        /\ Len(returned[r].message.tool_calls) > 0
        /\ execLog[r] = <<>>

C8_CounterWithinCeiling ==
    /\ currentExecutions >= 0
    /\ currentExecutions <= maxConcurrentExecutions

\* two callers each hold a slot and the ceiling is reached
C8_Witness ==
    /\ maxConcurrentExecutions >= 2
    /\ currentExecutions = maxConcurrentExecutions
    /\ \A r \in Runs : Running(r) # {}

\* C9: a batch of ceiling + 1 calls with valid arguments for a registered tool,
\* started on an idle executor, has exactly ceiling calls whose tool is invoked
\* and one call rejected with the admission error; and no call whose tool was
\* invoked ever ends with the text of the admission error.
C9_AdmissionControl ==
    /\ [][\A r \in Runs :
            (/\ batch[r] = <<>>
             /\ batch'[r] # <<>>
             /\ currentExecutions = 0
             /\ Len(batch'[r]) = maxConcurrentExecutions + 1
             /\ \A i \in 1..Len(batch'[r]) : GoodCall(batch'[r][i].call))
            => /\ Cardinality(Ran(batch'[r])) = maxConcurrentExecutions
               /\ Cardinality({ i \in 1..Len(batch'[r]) :
                                  /\ batch'[r][i].st = "returned"
                                  /\ ~batch'[r][i].result.success
                                  /\ batch'[r][i].result.error = ErrRejected }) = 1
               /\ currentExecutions' = maxConcurrentExecutions]_vars
    /\ [](\A r \in Runs : \A i \in 1..Len(batch[r]) :
            (batch[r][i].st = "returned" /\ batch[r][i].result.error = ErrRejected)
            => batch[r][i].tool = "none")

\* all results of such a batch are in: ceiling tools ran, one of them threw,
\* the last call was rejected
C9_Witness ==
    \E r \in Runs :
        /\ Len(batch[r]) = maxConcurrentExecutions + 1
        /\ \A i \in 1..Len(batch[r]) : GoodCall(batch[r][i].call)
        /\ AllReturned(batch[r])
        /\ Ran(batch[r]) = 1..maxConcurrentExecutions
        /\ batch[r][1].result.error = ExecuteToolError(<<"Maximum concurrent tool executions reached">>)
        /\ Last(batch[r]).result.error = ErrRejected

\* C10: the in-flight counter equals the number of admitted invocations that
\* have not returned, on every path; it is 0 when none is in progress.
C10_CounterCountsRunning ==
    LET inProgress == { <<r, i>> \in Runs \X (1..MaxCalls) : i \in Running(r) }
    IN currentExecutions = Cardinality(inProgress)

\* a tool settled after its invocation had timed out, and the counter is 0
C10_Witness ==
    /\ currentExecutions = 0
    /\ \E r \in Runs : \E i \in 1..Len(batch[r]) :
         /\ batch[r][i].result.error = ErrTimeout
         /\ batch[r][i].tool = "settled"

\* the error texts that reach the caller of a chat-completion run
RunErrors ==
    { ErrorReturn("Model is required"),
      ErrorReturn("Messages array is required and must not be empty"),
      ErrorReturn("Each message must have a valid role"),
      ErrorReturn("Groq API request failed") }

C12_AdmittedCallsReturn ==
    /\ \A r \in Runs : \A i \in 1..MaxCalls :
          (i \in Running(r)) ~> (i \in 1..Len(batch[r]) /\ batch[r][i].st = "returned")
    /\ [](\A r \in Runs : \A i \in 1..Len(batch[r]) :
            (batch[r][i].st = "returned" /\ batch[r][i].tool = "pending")
            => batch[r][i].result = Failure(batch[r][i].call, ErrTimeout))

\* both invocations of a batch returned by timeout, their tools still pending,
\* and the counter is back at 0
C12_Witness ==
    \E r \in LoopRuns :
        /\ Len(batch[r]) = 2
        /\ \A i \in 1..2 :
             /\ batch[r][i].st = "returned"
             /\ batch[r][i].tool = "pending"
             /\ batch[r][i].result.error = ErrTimeout
        /\ currentExecutions = 0

\* C13: when executeToolCalls has returned, one tool message per result is
\* appended in call order, a failed result as 'Error: ' followed by its reason
\* and a successful one as the serialized result, and the next model turn (or
\* the forced last turn) is issued with these messages in its request: the
\* run does not end there.
C13_FailuresFedBack ==
    [][\A r \in LoopRuns :
         (pc[r] = "tools" /\ pc'[r] # "tools")
         => /\ pc'[r] \in {"turn", "final"}
            /\ Len(turnLog'[r]) = Len(turnLog[r]) + 1
            /\ returned'[r] = NoReturn
            /\ Len(currentMessages'[r]) = Len(currentMessages[r]) + Len(batch[r])
            /\ \A i \in 1..Len(batch[r]) :
                 LET res == batch[r][i].result
                     msg == currentMessages'[r][Len(currentMessages[r]) + i]
                 IN /\ msg.role = "tool"
                    /\ msg.tool_call_id = batch[r][i].call.id
                    /\ ~res.success => (msg.content = <<"Error: ">> \o res.error
                                         /\ Len(msg.content) > 1)
                    /\ res.success => msg.content = <<"json:", res.result>>
            /\ \A p \in 1..Len(currentMessages'[r]) :
                 lastRequest'[r].messages[p] = currentMessages'[r][p]]_vars

\* the request of a turn carries the messages of an unknown tool, of a missing
\* parameter and of a tool that threw
C13_Witness ==
    \E r \in LoopRuns :
        /\ pc[r] \in {"turn", "final"}
        /\ \E p \in 1..Len(lastRequest[r].messages) :
             lastRequest[r].messages[p].content = <<"Error: ">> \o ErrNotFound("nosuch")
        /\ \E p \in 1..Len(lastRequest[r].messages) :
             lastRequest[r].messages[p].content = <<"Error: ">> \o ErrMissing
        /\ \E p \in 1..Len(lastRequest[r].messages) :
             /\ Len(lastRequest[r].messages[p].content) > 2
             /\ lastRequest[r].messages[p].content[2] = "Tool execution failed: "

\* C14: a call for a registered tool whose parsed (and unwrapped) arguments
\* lack the required parameter returns the validation failure 'Missing
\* required parameter', unless it was rejected at admission, and the tool's
\* execute function is not invoked for it: the call never waits on a tool.
C14_ValidationShortCircuits ==
    \A r \in Runs : \A i \in 1..Len(batch[r]) :
        LET inv == batch[r][i] IN
        (/\ inv.call.name \in RegisteredTools
         /\ ParseOK(inv.call.arguments)
         /\ inv.call.arguments \notin {"{\"x\":1}", "{\"args\":[{\"x\":1}]}"})
        => /\ inv.st = "returned"
           /\ inv.tool = "none"
           /\ ~inv.result.success
           /\ inv.result.error \in {ErrMissing, ErrRejected}

\* an admitted call whose top-level object has "x" but whose unwrapped
\* arguments lack it returned the validation failure, while the other caller
\* holds a slot
C14_Witness ==
    \E r \in Runs :
        /\ Len(batch[r]) = 1
        /\ batch[r][1].call.arguments = "{\"x\":1,\"args\":[{}]}"
        /\ batch[r][1].result = Failure(batch[r][1].call, ErrMissing)
        /\ batch[r][1].tool = "none"
        /\ currentExecutions = 1

\* C15: a remote call is issued only when a run starts or when the results of
\* a batch are in, never while another is unanswered or after one has failed;
\* a run that has failed has returned one error, has no invocation in flight,
\* and afterwards issues no model turn, hands no call to the executor and keeps
\* the error it returned.
C15_UpstreamFailureIsFatal ==
    /\ [][\A r \in LoopRuns :
            /\ turnLog'[r] # turnLog[r] =>
                 (pc[r] \in {"idle", "tools"} /\ Len(turnLog'[r]) = Len(turnLog[r]) + 1)
            /\ pc[r] = "failed" =>
                 /\ pc'[r] = "failed"
                 /\ returned'[r] = returned[r]
                 /\ turnLog'[r] = turnLog[r]
                 /\ execLog'[r] = execLog[r]
                 /\ batch'[r] = batch[r]
                 /\ currentMessages'[r] = currentMessages[r]]_vars
    /\ [](\A r \in LoopRuns :
            pc[r] = "failed" =>
                /\ returned[r].kind = "error"
                /\ batch[r] = <<>>
                /\ currentExecutions = 0
                /\ Len(turnLog[r]) > 0 => returned[r] = ErrorReturn("Groq API request failed"))

\* the second turn of the loop failed upstream, after a batch of tools had run
C15_Witness ==
    \E r \in LoopRuns :
        /\ FromLoop(r)
        /\ pc[r] = "failed"
        /\ returned[r] = ErrorReturn("Groq API request failed")
        /\ iterations[r] = 2
        /\ Len(turnLog[r]) = 2
        /\ Len(execLog[r]) >= 1

\* a request with a model, at least one message, and only roles of the enumeration
WellFormed(req) ==
    /\ req.model # ""
    /\ Len(req.messages) > 0
    /\ \A p \in 1..Len(req.messages) :
         req.messages[p].role \in {"system", "user", "assistant", "tool"}

\* C16: the request of every remote call, of the first turn and of every later
\* one, buffered or streamed, has a model, a non-empty message list and only
\* valid roles; a run whose request lacks one of these makes no remote call and
\* executes no tool, and fails with the validation error.
\* Refuted by a handler constructed with maxToolIterations = 0: the loop is
\* skipped, the forced last request is the caller's empty message list plus
\* the synthetic system message, it passes validateRequest and is sent.
C16_ValidatedBeforeNetwork ==
    \A r \in LoopRuns :
        /\ Len(turnLog[r]) > 0 => WellFormed(lastRequest[r])
        /\ (pc[r] # "idle" /\ ~WellFormed(received[r])) =>
             /\ pc[r] = "failed"
             /\ turnLog[r] = <<>>
             /\ execLog[r] = <<>>
             /\ batch[r] = <<>>
             /\ returned[r].kind = "error"
             /\ returned[r] # ErrorReturn("Groq API request failed")

\* the positions of a prompt that hold the block b
Positions(prompt, b) == { k \in 1..Len(prompt) : prompt[k] = b }

C18_HeuristicSuppressesCatalogue ==
    /\ (/\ harmonyRequest.encoder = "integration"
        /\ harmonyRequest.tool_choice = "absent"
        /\ contentHasToolDescriptions(harmonyRequest.messages))
       => /\ harmonyPrompt[1] = SuppressionPreamble
          /\ harmonyPrompt[Len(harmonyPrompt) - 1] = ReminderPreamble
          /\ Positions(harmonyPrompt, ToolCatalogue) = {}
    /\ ~(/\ Positions(harmonyPrompt, SuppressionPreamble) # {}
         /\ Positions(harmonyPrompt, ToolCatalogue) # {})

\* C19: decoding yields one ToolCall per marker that matches the calling
\* convention, in order and with the marker's name, and the arguments of every
\* ToolCall are the text of a JSON object: the parsed one, the repaired one, or
\* '{}'.
\* Refuted for harmony-integration: arguments that JSON.parse rejects are
\* passed on as they were written.
C19_DecodeRepairsOrEmpties ==
    harmonyContent.source = "model" =>
        LET matched == SelectSeq(harmonyContent.calls, MatchesPattern)
            calls == parsedResponse.toolCalls
        IN /\ Len(calls) = Len(matched)
           /\ \A k \in 1..Len(calls) :
                /\ calls[k].name = matched[k].name
                /\ JSONParse(calls[k].arguments).ok
                /\ JSONParse(matched[k].args).ok =>
                     JSONParse(calls[k].arguments).value = JSONParse(matched[k].args).value

\* C20: decoding the text the encoder emits for an assistant message whose
\* tool calls have JSON objects as arguments yields the tool calls of the
\* message: as many, with the same names and equal argument objects, in order.
\* Refuted: a call whose argument text holds a ")" is not matched by
\* toolCallPattern and is dropped.
C20_ToolCallsRoundTrip ==
    harmonyContent.source = "history" =>
        LET original == Last(harmonyRequest.messages).tool_calls
            calls == parsedResponse.toolCalls
        IN /\ Len(calls) = Len(original)
           /\ \A k \in 1..Len(original) :
                k <= Len(calls) =>
                    /\ calls[k].name = original[k].name
                    /\ JSONParse(calls[k].arguments).value
                           = JSONParse(original[k].arguments).value

\* the blocks an encoder adds of its own
EncoderBlocks ==
    {SuppressionPreamble, ToolsPreamble, PlainPreamble, ToolCatalogue, ReminderPreamble,
     GenerationPrompt, DeveloperMessage}

\* the blocks of a prompt that come from the messages of the request
MessageBlocks(prompt) == SelectSeq(prompt, LAMBDA b : b \notin EncoderBlocks)

HasContent(message) == message.content # <<>>
IsToolMessage(message) == message.role = "tool"
IsToolResult(block) == block.tag = "tool_result"

\* C21: the prompt holds, in the order of the conversation, one block for
\* every message of the request that has content, with the content of that
\* message, whatever the tool choice and the outcome of the heuristic are; the
\* message appended for the forced last turn is one of them.
\* Refuted: a system message is left out whenever tools are suppressed, which
\* the forced last turn's tool_choice 'none' brings about, and a tool message
\* without a name is left out always.
C21_EveryMessageSerialized ==
    harmonyRequest # NoHarmonyRequest =>
        LET body == MessageBlocks(harmonyPrompt)
            messages == SelectSeq(harmonyRequest.messages, HasContent)
        IN /\ Len(body) = Len(messages)
           /\ \A k \in 1..Len(messages) :
                k <= Len(body) => body[k].text = messages[k].content

\* C22: the tool messages of a request and the tool-result blocks of its
\* prompt correspond one to one and in order, each block with the name and the
\* content of its message, and no tool message appears as a user or assistant
\* block.
\* Refuted: harmony-integration leaves out a tool message that has no name,
\* and harmony-official turns every tool message into a user message.
C22_ToolMessagesAreToolResults ==
    harmonyRequest # NoHarmonyRequest =>
        LET results == SelectSeq(harmonyPrompt, IsToolResult)
            messages == SelectSeq(harmonyRequest.messages, IsToolMessage)
        IN /\ Len(results) = Len(messages)
           /\ \A k \in 1..Len(messages) :
                k <= Len(results) =>
                    /\ results[k].name = messages[k].name
                    /\ results[k].text = messages[k].content
           /\ \A k \in 1..Len(harmonyPrompt) :
                harmonyPrompt[k].tag \in {"user", "assistant"} =>
                    \A q \in 1..Len(messages) : harmonyPrompt[k].text # messages[q].content

\* C26: the completion returned for a request with tools and tool_choice
\* 'none' carries no tool calls, whatever the remote model wrote.
\* Refuted: the answer is decoded without regard to the tool choice, so a
\* marker in the text becomes a tool call of the completion.
C26_NoneYieldsNoToolCalls ==
    (/\ harmonyContent.source = "completion"
     /\ harmonyRequest.tools
     /\ harmonyRequest.tool_choice = "none")
    => parsedResponse.toolCalls = <<>>

\* the lines of the stream that have been read to their end
ReadLines == SubSeq(upstreamLines, 1, Len(upstreamLines) - Len(sourceStream))

IsContentLine(line) == line.kind = "content"
IsNotEmptyLine(line) == line.kind # "empty"

\* the delta contents of content lines, one after the other
RECURSIVE ContentOf(_)
ContentOf(lines) ==
    IF lines = <<>> THEN <<>> ELSE Head(lines).content \o ContentOf(Tail(lines))

\* content lines and then the sentinel
ContentOnlyThenDone(lines) ==
    /\ lines # <<>>
    /\ Last(lines) = DoneLine
    /\ \A k \in 1..(Len(lines) - 1) : IsContentLine(lines[k])

RECURSIVE IsSubsequence(_, _)
IsSubsequence(a, b) ==
    IF a = <<>> THEN TRUE
    ELSE IF b = <<>> THEN FALSE
    ELSE IF Head(a) = Head(b) THEN IsSubsequence(Tail(a), Tail(b))
    ELSE IsSubsequence(a, Tail(b))

\* C23: when a stream of n content lines and the sentinel has been read to its
\* end and the outbound stream is closed, the lines enqueued, the empty ones
\* aside, are the n content lines in their order, then one chunk with the
\* tool calls exactly if the concatenated content decodes to at least one, then
\* the sentinel.
\* Refuted: a line that a chunk boundary divides is enqueued as two lines and
\* its content is not accumulated, and a divided sentinel is not recognised.
C23_StreamingOrder ==
    (controllerState = "closed" /\ ContentOnlyThenDone(upstreamLines)) =>
        LET contents == SubSeq(upstreamLines, 1, Len(upstreamLines) - 1)
            calls == StreamToolCalls(ContentOf(contents))
        IN SelectSeq(enqueued, IsNotEmptyLine)
               = contents \o (IF calls # <<>> THEN <<ToolCallChunk(calls)>> ELSE <<>>)
                          \o <<DoneLine>>

\* C24: whenever the function waits for the next chunk or has ended, the content
\* lines read so far have all been enqueued, unchanged and in their order, and
\* the accumulator holds their contents.
\* Refuted: the content of a line that a chunk boundary divides is neither
\* enqueued as the line it was nor accumulated, and a content line that follows
\* the sentinel in the same chunk is not visited.
C24_ContentNeverWithheld ==
    LET contents == SelectSeq(ReadLines, IsContentLine) IN
    /\ SelectSeq(enqueued, IsContentLine) = contents
    /\ accumulatedContent = ContentOf(contents)

\* C25: the lines read so far have all been enqueued as they were, in the order
\* in which they came: they are a subsequence of the lines enqueued.
\* Refuted: the lines that follow the sentinel in the same chunk are not
\* visited (the break of line 562), and a line that a chunk boundary divides is
\* enqueued as two lines.
C25_NoLineLost == IsSubsequence(ReadLines, enqueued)

\* the tool of the latest registerTool call for a name, if there was one
LastRegistered(name) ==
    LET calls == { k \in 1..Len(registrations) : registrations[k].name = name } IN
    IF calls = {} THEN <<>>
    ELSE <<registrations[CHOOSE k \in calls : \A q \in calls : q <= k]>>

\* C27: after any sequence of registerTool calls the registry holds at most
\* one tool per name, the tool it holds for a name is the one registered last
\* under that name, and getTool returns that tool, or returns that there is
\* none, without throwing.
C27_LastWriteWins ==
    /\ \A i, j \in 1..Len(tools) : tools[i].name = tools[j].name => i = j
    /\ \A name \in ToolNames : MapGet(tools, name) = LastRegistered(name)
    /\ lastCall.method = "getTool" =>
          /\ lastCall.outcome = "returned"
          /\ lastCall.value = LastRegistered(lastCall.argument)

\* getTool of a name registered twice, the built-in tool first, while the
\* other name was never registered
C27_Witness ==
    /\ lastCall.method = "getTool"
    /\ lastCall.argument = "calc"
    /\ Len(registrations) = 2
    /\ registrations[2].name = "calc"
    /\ registrations[2] # registrations[1]
    /\ lastCall.value = <<registrations[2]>>
    /\ MapGet(tools, "search") = <<>>

\* the latest call is executeTool for a registered tool whose execute throws
ExecutedFailingTool ==
    /\ lastCall.method = "executeTool"
    /\ MapGet(tools, lastCall.argument[1]) # <<>>
    /\ ExecuteThrows(MapGet(tools, lastCall.argument[1])[1])

\* C28, as stated: executeTool of a tool that throws returns, with a failure as
\* its value.
\* Refuted: the catch block throws a new Error.
C28_ExecuteReturnsFailure == ExecutedFailingTool => lastCall.outcome = "returned"

\* C28, amended: executeTool of a tool that throws does not let the Error of
\* the tool through as it was raised: it throws a new Error whose message is
\* 'Tool execution failed: ' followed by the message of the Error of the tool.
C28_ExecuteWrapsFailure ==
    ExecutedFailingTool =>
        /\ lastCall.outcome = "threw"
        /\ lastCall.value = <<"Tool execution failed: ">> \o lastCall.argument[2]
        /\ lastCall.value # lastCall.argument[2]

\* executeTool of the built-in tool after a failing definition replaced it
C28_Witness ==
    /\ ExecutedFailingTool
    /\ lastCall.argument[1] = "calc"
    /\ lastCall.outcome = "threw"

\* C29: the tools of a request for which enhanceRequestWithTools merged the
\* tools of the caller, of the registry and of the customTools option hold
\* every name once at most, and under a name the caller supplied they hold a
\* definition of the caller.
C29_MergedToolsUnique ==
    (/\ lastCall.method = "enhanceRequestWithTools"
     /\ MergesTools(lastCall.argument[2], includeBuiltInTools, customTools))
    => LET existingTools == lastCall.argument[1]
           merged == lastCall.value
       IN /\ \A i, j \in 1..Len(merged) : merged[i].name = merged[j].name => i = j
          /\ \A k \in 1..Len(merged) :
               (\E q \in 1..Len(existingTools) : existingTools[q].name = merged[k].name)
                   => merged[k] \in CallerTools
          /\ \A q \in 1..Len(existingTools) :
               \E k \in 1..Len(merged) : merged[k] = existingTools[q]

\* a merge in which the caller, the registry and the custom tools all supply
\* "calc"
C29_Witness ==
    /\ lastCall.method = "enhanceRequestWithTools"
    /\ MergesTools(lastCall.argument[2], includeBuiltInTools, customTools)
    /\ includeBuiltInTools
    /\ customTools = <<OpenAITool("calc", "custom")>>
    /\ \E q \in 1..Len(lastCall.argument[1]) : lastCall.argument[1][q].name = "calc"
    /\ MapGet(tools, "calc") # <<>>
    /\ Len(lastCall.value) >= 1

\* C30: the iteration cap of a handler is within [1, 10] from its
\* construction on.
\* Refuted: the constructor stores the maxToolIterations option as it is given;
\* only setMaxToolIterations clamps.
C30_CapWithinLimits == maxToolIterations \in MinToolIterations..MaxToolIterations

\* the messages of validateRequest
ValidationErrors ==
    { <<"Model is required">>, <<"Messages array is required and must not be empty">>,
      <<"Each message must have a valid role">> }

\* C31: a request that fails validation is answered with a status of the 4xx
\* class and the message of the validation.
\* Refuted: the route answers every Error the handler throws with status 500
\* and type internal_server_error.
C31_ValidationErrorIs4xx ==
    \A r \in LoopRuns :
        (returned[r].kind = "error" /\ returned[r].message \in ValidationErrors) =>
            /\ fetchChatCompletions(returned[r]).status \in 400..499
            /\ fetchChatCompletions(returned[r]).error.message = returned[r].message

\* an invocation that was turned away at the admission check
Rejected(inv) == inv.st = "returned" /\ inv.result.error = ErrRejected

\* C32: a call made while the counter is at the ceiling returns the admission
\* failure in the same step, without its tool being invoked and with the
\* counter as it was; the calls of a batch raise the counter by the number of
\* those that were admitted and are waiting, and by nothing for the others; and
\* a rejected invocation stays as it is until its caller has the result: its
\* tool is not invoked when slots become free.
C32_AdmissionIsRejection ==
    /\ [][\A r \in Runs :
            (batch[r] = <<>> /\ batch'[r] # <<>>) =>
                /\ currentExecutions' = currentExecutions + Cardinality(Running(r)')
                /\ (Len(batch'[r]) = 1 /\ currentExecutions >= maxConcurrentExecutions) =>
                      /\ batch'[r][1].result = Failure(batch'[r][1].call, ErrRejected)
                      /\ batch'[r][1].st = "returned"
                      /\ batch'[r][1].tool = "none"
                      /\ currentExecutions' = currentExecutions]_vars
    /\ [][\A r \in Runs : \A i \in 1..Len(batch[r]) :
            (Rejected(batch[r][i]) /\ i <= Len(batch'[r])) => batch'[r][i] = batch[r][i]]_vars
    /\ [](\A r \in Runs : \A i \in 1..Len(batch[r]) :
            Rejected(batch[r][i]) => batch[r][i].tool = "none")

\* a caller still holds its rejected invocation after the slots became free
C32_Witness ==
    \E r \in Runs :
        /\ Len(batch[r]) = 1
        /\ Rejected(batch[r][1])
        /\ GoodCall(batch[r][1].call)
        /\ batch[r][1].tool = "none"
        /\ currentExecutions = 0

\* a remote call of the run has been issued and not answered
InFlight(r) == pc[r] \in {"turn", "final", "single", "stream"}

TurnIssued(r) == Len(turnLog'[r]) > Len(turnLog[r])

\* C33: the iterations of one run are strictly sequential. A model turn is
\* issued only when no turn of the run is in flight and every invocation of the
\* batch before it has returned its result, the request of that turn carries a
\* tool message for every call of the batch, and no tool call of the run is
\* waiting while a turn is in flight.
C33_IterationsSequential ==
    /\ [][\A r \in LoopRuns :
            TurnIssued(r) =>
                /\ ~InFlight(r)
                /\ InFlight(r)'
                /\ Len(turnLog'[r]) = Len(turnLog[r]) + 1
                /\ \A i \in 1..Len(batch[r]) : batch[r][i].st = "returned"
                /\ \A i \in 1..Len(batch[r]) :
                     \E k \in 1..Len(lastRequest'[r].messages) :
                        /\ lastRequest'[r].messages[k].role = "tool"
                        /\ lastRequest'[r].messages[k].tool_call_id = batch[r][i].call.id
                        /\ k > Len(currentMessages[r])]_vars
    /\ [](\A r \in LoopRuns : InFlight(r) => batch[r] = <<>>)

\* the second turn of a run is in flight after a batch of two calls, one of
\* which returned by timeout
C33_Witness ==
    \E r \in LoopRuns :
        /\ pc[r] = "turn"
        /\ Len(turnLog[r]) = 2
        /\ batches[r] = 1
        /\ Len(execLog[r]) = 2
        /\ \E k \in 1..Len(lastRequest[r].messages) :
              lastRequest[r].messages[k].content = <<"Error: ">> \o ErrTimeout

IsPrefix(s, t) == Len(s) <= Len(t) /\ \A k \in 1..Len(s) : t[k] = s[k]

\* C34: the conversation is append-only. The message list of every model turn
\* of a run has the list of the turn before it as a prefix, the list of the
\* first turn starts with the caller's messages, and the messages of the
\* caller's request are the same after every step of the run.
C34_AppendOnly ==
    /\ [][\A r \in LoopRuns :
            TurnIssued(r) =>
                /\ IsPrefix(received'[r].messages, lastRequest'[r].messages)
                /\ Len(turnLog[r]) > 0 =>
                     IsPrefix(lastRequest[r].messages, lastRequest'[r].messages)]_vars
    /\ [][\A r \in LoopRuns : pc[r] # "idle" => received'[r] = received[r]]_vars

\* the third turn of a run carries more messages than the caller sent
C34_Witness ==
    \E r \in LoopRuns :
        /\ Len(turnLog[r]) = 3
        /\ batches[r] = 2
        /\ received[r].messages = <<UserMessage>>
        /\ Len(lastRequest[r].messages) >= 5

\* the tool implementations that were started and have not settled
Executing == { <<r, i>> \in Runs \X (1..MaxCalls) :
                 i <= Len(batch[r]) /\ batch[r][i].tool = "pending" }

\* C35: at any time the number of tool implementations that were started and
\* have not finished is at most the admission ceiling, also after timeouts.
\* Refuted: the timer ends the wait and the finally block gives the slot back
\* while the tool goes on running, so the next call is admitted beside it.
C35_ExecutingWithinCeiling ==
    Cardinality(Executing) <= maxConcurrentExecutions

\* the argument object the unwrapping rule names: the first element of a
\* non-empty "args" array ({path} for the file.path shape), otherwise the
\* parsed arguments as they are
Unwrapped(arguments) ==
    IF arguments = "{\"args\":[null]}" THEN "null" ELSE UnwrapArgs(arguments)

\* C36: the validation and the execution of an admitted call with parsable
\* arguments receive the unwrapped arguments and never the wrapper; arguments
\* without an "args" array are passed on as they are. So the call returns what
\* validateToolCall says of the unwrapped arguments, or goes on to the tool.
\* Refuted: a null first element, and the JSON value null, make the unwrapping
\* throw inside the try block of JSON.parse, and the call returns 'Invalid
\* JSON arguments' without any validation.
C36_UnwrappedArgumentsUsed ==
    \A r \in Runs : \A i \in 1..Len(batch[r]) :
        LET inv == batch[r][i]
            validation == validateToolCall(inv.call.name, Unwrapped(inv.call.arguments))
        IN (/\ ParseOK(inv.call.arguments)
            /\ ~(inv.st = "returned" /\ inv.result.error = ErrRejected))
           => IF validation.valid
              THEN inv.tool # "none"
              ELSE /\ inv.st = "returned"
                   /\ inv.tool = "none"
                   /\ inv.result = Failure(inv.call, validation.error)

\* the same for the calls whose unwrapping does not throw
C36_UnwrappedObjectsUsed ==
    \A r \in Runs : \A i \in 1..Len(batch[r]) :
        LET inv == batch[r][i]
            validation == validateToolCall(inv.call.name, UnwrapArgs(inv.call.arguments))
        IN (/\ ParseOK(inv.call.arguments)
            /\ ~UnwrapThrows(inv.call.arguments)
            /\ ~(inv.st = "returned" /\ inv.result.error = ErrRejected))
           => IF validation.valid
              THEN inv.tool # "none"
              ELSE /\ inv.st = "returned"
                   /\ inv.tool = "none"
                   /\ inv.result = Failure(inv.call, validation.error)

\* what the function accumulates and enqueues when the whole upstream text
\* comes as one chunk
OneChunk == ProcessLines(SplitLines(upstreamLines, FALSE), <<>>, <<>>)

\* C37: the partition of the upstream text into chunks makes no difference.
\* When the stream has been read to its end, the lines enqueued (the empty ones
\* aside), the tool-call chunk among them, and the content accumulated are
\* those of the same text read as one chunk.
\* Refuted: a data line or sentinel that a chunk boundary divides is enqueued
\* as two lines that are neither parsed nor recognised, and the lines after the
\* sentinel are enqueued only when they come in a later chunk.
C37_ChunkBoundaryIndependent ==
    controllerState = "closed" =>
        /\ SelectSeq(enqueued, IsNotEmptyLine) = SelectSeq(OneChunk.out, IsNotEmptyLine)
        /\ accumulatedContent = OneChunk.accumulated

\* the outbound stream is closed and holds the chunk with the tool calls of
\* the accumulated content, if that content decodes to any
ToolCallChunkEmitted ==
    (controllerState = "closed" /\ StreamToolCalls(accumulatedContent) # <<>>) =>
        \E k \in 1..Len(enqueued) :
            enqueued[k] = ToolCallChunk(StreamToolCalls(accumulatedContent))

\* once the upstream body has been read to its end the outbound stream is
\* closed or errored
StreamEventuallyEnds ==
    (controllerState = "open" /\ sourceStream = <<>>)
        ~> (controllerState \in {"closed", "errored"})

\* C38: a stream whose accumulated content decodes to at least one tool call
\* has the synthesized tool-call chunk enqueued before the outbound stream
\* closes, and the outbound stream eventually closes or errors once the
\* upstream stream has closed or errored.
\* Refuted in its first part: the chunk is built only where a whole line is
\* the sentinel, so a stream that ends without the sentinel, or whose sentinel
\* a chunk boundary divides, closes without it.
C38_ToolCallChunkThenClose ==
    /\ []ToolCallChunkEmitted
    /\ StreamEventuallyEnds

\* C39: the cap that bounds a run is the one in force when the run started,
\* whatever setMaxToolIterations and setAutoToolExecution calls come while it
\* is in progress: the run makes at most that many tool batches and one model
\* turn more, and it goes to the forced last turn after exactly that many
\* iterations.
\* Refuted: the loop condition reads this.maxToolIterations anew before every
\* iteration, so a setMaxToolIterations call between two turns ends the loop
\* earlier or lets it go on longer.
C39_CapFixedAtStart ==
    \A r \in LoopRuns :
        /\ batches[r] <= capAtStart[r]
        /\ Len(turnLog[r]) <= capAtStart[r] + 1
        /\ pc[r] = "final" => iterations[r] = capAtStart[r]

====
